---------------------------- MODULE Spec2Model ----------------------------
(***************************************************************************)
(* A model of minipb (src/minipb.py): the primitive codec, the raw         *)
(* breakdown of a wire into records, the two schema parsers with their     *)
(* overlap checker, and the schema-driven encoder and decoder.             *)
(*                                                                         *)
(* Bytes are the integers 0..255 and a byte string is a sequence of them.  *)
(* Python values are tagged records (PyNone, PyInt, ...), so that values   *)
(* of different Python types can be compared.  A format string is the      *)
(* sequence of its characters.                                             *)
(***************************************************************************)
EXTENDS Integers, Sequences, FiniteSets, TLC

VARIABLES
    pc,             \* position of the operation under way
    data,           \* decode_raw: the bytes handed in
    buf,            \* _yield_fields_from_wire: the unread rest of the stream
    wire_type,      \* _yield_fields_from_wire: local wire_type (Some/Nothing)
    field_number,   \* _yield_fields_from_wire: local field_number
    fields,         \* the records yielded so far
    msg,            \* the complete records the input stream was cut from
    fmtstr,         \* _parse_format_string / _parse_kvfmt: the schema text
    ptr,            \* _parse_format_string: ptr (kvfmt: index of the entry)
    field_id,       \* parser: the running field counter
    parsed_list,    \* parser: the descriptors laid out so far
    parser_used_fields, \* _OverlapCheck._parser_used_fields
    wire,           \* Wire: the schema object (fmt, kv_fmt, sparse, bits)
    stuff,          \* Wire.encode: the value handed in
    encoded,        \* Wire.encode: its outcome
    decoded,        \* Wire.decode: its outcome
    exc,            \* the exception that ended the operation, if any
    tokens          \* the tokens the schema text was written from

vars == <<pc, data, buf, wire_type, field_number, fields, msg, fmtstr, ptr,
          field_id, parsed_list, parser_used_fields, wire, stuff, encoded,
          decoded, exc, tokens>>

rawVars == <<data, buf, wire_type, field_number, fields, msg>>
parseVars == <<fmtstr, ptr, field_id, parsed_list, parser_used_fields,
               tokens>>
codecVars == <<wire, stuff, encoded, decoded>>

-----------------------------------------------------------------------------
(* Python values *)

PyNone == [k |-> "none"]
PyInt(n) == [k |-> "int", i |-> n]
PyBool(b) == [k |-> "bool", b |-> b]
PyBytes(y) == [k |-> "bytes", y |-> y]
PyStr(s) == [k |-> "str", s |-> s]
PyTuple(t) == [k |-> "tuple", t |-> t]
PyDict(d) == [k |-> "dict", d |-> d]

\* An optional local: None, or a value.
Nothing == [some |-> FALSE]
Some(v) == [some |-> TRUE, v |-> v]

\* F applied to the value of v: v is computed once, as the assignment of a
\* local variable is.
With(v, F(_)) == CHOOSE r \in { F(x) : x \in {v} } : TRUE

\* The outcome of a read: a value and the rest of the stream, or the
\* EndOfMessage exception with its `partial' argument.
Read(v, rest) == [ok |-> TRUE, val |-> v, rest |-> rest]
EndOfMessage(partial) == [ok |-> FALSE, partial |-> partial]

RECURSIVE Concat(_)
Concat(ss) == IF ss = <<>> THEN <<>> ELSE Head(ss) \o Concat(Tail(ss))

Take(s, n) == SubSeq(s, 1, IF n < Len(s) THEN n ELSE Len(s))
Drop(s, n) == SubSeq(s, n + 1, Len(s))

-----------------------------------------------------------------------------
(* Wire types *)

_WIRE_TYPE_VARINT == 0
_WIRE_TYPE_I64 == 1
_WIRE_TYPE_LEN == 2
_WIRE_TYPE_I32 == 5

-----------------------------------------------------------------------------
(* Primitive codec *)

\* The same with every group of seven bits followed by a continuation, and a
\* closing zero byte.
RECURSIVE _encode_vint_Padded(_)
_encode_vint_Padded(number) ==
    IF number = 0 THEN <<0>>
    ELSE <<128 + (number % 128)>> \o _encode_vint_Padded(number \div 128)

RECURSIVE _encode_vint(_)
_encode_vint(number) ==
    LET tmp == number % 128
        rest == number \div 128
    IN  IF rest = 0 THEN <<tmp>>
        ELSE <<128 + tmp>> \o _encode_vint(rest)

RECURSIVE _decode_vint_loop(_, _, _, _)
_decode_vint_loop(b, ctr, result, partial) ==
    IF b = <<>> THEN EndOfMessage(partial)
    ELSE With(result + ((Head(b) % 128) * (2 ^ (7 * ctr))), LAMBDA r :
         IF Head(b) \div 128 = 0 THEN Read(r, Tail(b))
         ELSE _decode_vint_loop(Tail(b), ctr + 1, r, TRUE))

_decode_vint(b) == _decode_vint_loop(b, 0, 0, FALSE)

_encode_bytes(in_bytes) == _encode_vint(Len(in_bytes)) \o in_bytes

_decode_bytes(b) ==
    With(_decode_vint(b), LAMBDA length :
        IF ~length.ok THEN length
        ELSE IF Len(length.rest) < length.val THEN EndOfMessage(TRUE)
        ELSE Read(Take(length.rest, length.val),
                  Drop(length.rest, length.val)))

\* The same with a short read never reported as partial.
_read_fixed_NeverPartial(b, length) ==
    LET actual == Len(Take(b, length))
    IN  IF actual # length THEN EndOfMessage(FALSE)
        ELSE Read(Take(b, length), Drop(b, length))

_read_fixed(b, length) ==
    LET actual == Len(Take(b, length))
    IN  IF actual # length THEN EndOfMessage(actual # 0)
        ELSE Read(Take(b, length), Drop(b, length))

-----------------------------------------------------------------------------
(* Header codec *)

\* The same with the field number shifted by two bits.
_encode_header_ShiftTwo(f_type, f_id) == _encode_vint((f_id * 4) + f_type)

_encode_header(f_type, f_id) == _encode_vint((f_id * 8) + f_type)

\* The same with the wire type taken from the low two bits only.
_decode_header_TwoTypeBits(b) ==
    With(_decode_vint(b), LAMBDA ord_data :
        IF ~ord_data.ok THEN ord_data
        ELSE [ok |-> TRUE, f_type |-> ord_data.val % 4,
              f_id |-> ord_data.val \div 8, rest |-> ord_data.rest])

_decode_header(b) ==
    With(_decode_vint(b), LAMBDA ord_data :
        IF ~ord_data.ok THEN ord_data
        ELSE [ok |-> TRUE, f_type |-> ord_data.val % 8,
              f_id |-> ord_data.val \div 8, rest |-> ord_data.rest])

-----------------------------------------------------------------------------
(* Raw codec *)

\* _WIRE_TYPE_TO_DECODER_MAP.get(wire_type): whether a decoder is found.
HasWireDecoder(wt) ==
    wt.some /\ wt.v \in {_WIRE_TYPE_VARINT, _WIRE_TYPE_I64, _WIRE_TYPE_LEN,
                         _WIRE_TYPE_I32}

\* _WIRE_TYPE_TO_DECODER_MAP[wt](b): a vint decodes to an int, the other
\* wire types to bytes.
WireDecode(wt, b) ==
    With(CASE wt = _WIRE_TYPE_VARINT -> _decode_vint(b)
           [] wt = _WIRE_TYPE_I64 -> _read_fixed(b, 8)
           [] wt = _WIRE_TYPE_LEN -> _decode_bytes(b)
           [] wt = _WIRE_TYPE_I32 -> _read_fixed(b, 4),
         LAMBDA r :
        IF ~r.ok THEN r
        ELSE Read(IF wt = _WIRE_TYPE_VARINT THEN PyInt(r.val)
                  ELSE PyBytes(r.val), r.rest))

\* Whether the `except EndOfMessage' clause of _yield_fields_from_wire
\* raises CodecError (otherwise it leaves the loop).
EomRaises(wt, e) == ~wt.some \/ e.partial

\* The same with the loop left at a header of a wire type without a decoder.
YieldIter_StopAtUnknown(b, hdr, wt, fn) ==
    With(IF hdr THEN _decode_header(b)
         ELSE [ok |-> TRUE, f_type |-> wt.v, f_id |-> fn.v, rest |-> b],
         LAMBDA h :
    IF ~h.ok THEN [kind |-> "break"]
    ELSE IF ~HasWireDecoder(Some(h.f_type))
         THEN [kind |-> "break"]
    ELSE With(WireDecode(h.f_type, h.rest), LAMBDA d :
         IF ~d.ok
         THEN IF EomRaises(Some(h.f_type), d)
              THEN [kind |-> "raise", field_number |-> Some(h.f_id)]
              ELSE [kind |-> "break"]
         ELSE [kind |-> "yield", buf |-> d.rest,
               wire_type |-> Some(h.f_type), field_number |-> Some(h.f_id),
               field |-> [id |-> h.f_id, wire_type |-> h.f_type,
                          data |-> d.val]]))

\* One pass through the `while 1' loop of _yield_fields_from_wire, from the
\* locals (b, wt, fn); hdr is requires_header_decoding.
YieldIter(b, hdr, wt, fn) ==
    With(IF hdr THEN _decode_header(b)
         ELSE [ok |-> TRUE, f_type |-> wt.v, f_id |-> fn.v, rest |-> b],
         LAMBDA h :
    IF ~h.ok THEN [kind |-> "break"]
    ELSE IF ~HasWireDecoder(Some(h.f_type))
         THEN [kind |-> "continue", buf |-> h.rest,
               wire_type |-> Some(h.f_type), field_number |-> Some(h.f_id)]
    ELSE With(WireDecode(h.f_type, h.rest), LAMBDA d :
         IF ~d.ok
         THEN IF EomRaises(Some(h.f_type), d)
              THEN [kind |-> "raise", field_number |-> Some(h.f_id)]
              ELSE [kind |-> "break"]
         ELSE [kind |-> "yield", buf |-> d.rest,
               wire_type |-> Some(h.f_type), field_number |-> Some(h.f_id),
               field |-> [id |-> h.f_id, wire_type |-> h.f_type,
                          data |-> d.val]]))

\* An exception raised by the codec.
Raise(cls, what, at) == [ok |-> FALSE, exc |-> cls, what |-> what, at |-> at]
Ok(v) == [ok |-> TRUE, val |-> v]

UnexpectedEOM == "Unexpected end of message while decoding field"

\* The whole generator, drained: the records, or the CodecError.
RECURSIVE YieldAll(_, _, _, _, _)
YieldAll(b, hdr, wt, fn, acc) ==
    With(YieldIter(b, hdr, wt, fn), LAMBDA it :
        CASE it.kind = "break" -> Ok(acc)
          [] it.kind = "raise" ->
                Raise("CodecError", UnexpectedEOM, it.field_number.v)
          [] it.kind = "continue" ->
                IF hdr THEN YieldAll(it.buf, hdr, it.wire_type,
                                     it.field_number, acc)
                ELSE Raise("Diverges", "no wire decoder", fn.v)
          [] it.kind = "yield" ->
                With(Append(acc, it.field), LAMBDA acc1 :
                    YieldAll(it.buf, hdr, it.wire_type, it.field_number,
                             acc1)))

_yield_fields_from_wire(b, wt, fn) ==
    YieldAll(b, ~wt.some /\ ~fn.some, wt, fn, <<>>)

decode_raw(d) == _yield_fields_from_wire(d, Nothing, Nothing)

\* _check_bytes_length: the data must be bytes of the given length.
_check_bytes_length(d, length) == d.k = "bytes" /\ Len(d.y) = length

\* _WIRE_TYPE_TO_ENCODER_MAP[wire_type](data), or the ValueError.
WireEncode(wt, d) ==
    CASE wt = _WIRE_TYPE_VARINT -> Ok(_encode_vint(d.i))
      [] wt = _WIRE_TYPE_I64 ->
            IF _check_bytes_length(d, 8) THEN Ok(d.y)
            ELSE Raise("ValueError", "Excepted a bytes object", wt)
      [] wt = _WIRE_TYPE_LEN -> Ok(_encode_bytes(d.y))
      [] wt = _WIRE_TYPE_I32 ->
            IF _check_bytes_length(d, 4) THEN Ok(d.y)
            ELSE Raise("ValueError", "Excepted a bytes object", wt)
      [] OTHER -> Raise("ValueError", "Unknown type", wt)

RECURSIVE encode_raw_loop(_, _)
encode_raw_loop(objs, acc) ==
    IF objs = <<>> THEN Ok(acc)
    ELSE With(WireEncode(Head(objs).wire_type, Head(objs).data), LAMBDA e :
         IF ~e.ok THEN e
         ELSE With(acc \o _encode_header(Head(objs).wire_type, Head(objs).id)
                       \o e.val,
                   LAMBDA acc1 : encode_raw_loop(Tail(objs), acc1)))

encode_raw(objs) == encode_raw_loop(objs, <<>>)

-----------------------------------------------------------------------------
(* decode_raw over a stream cut from complete records *)

MaxRecords == 2

\* The bytes one complete record takes on the wire.  A header of a wire type
\* without a decoder (3 and 4, the ends of a legacy group, and 6 and 7) is a
\* record of its own: raw breakdown skips it.
RecordBytes(r) ==
    IF ~HasWireDecoder(Some(r.wire_type))
    THEN _encode_header(r.wire_type, r.id)
    ELSE encode_raw(<<r>>).val

SampleRecords ==
    { [id |-> 1, wire_type |-> 0, data |-> PyInt(1)],
      [id |-> 16, wire_type |-> 0, data |-> PyInt(300)],
      [id |-> 2, wire_type |-> 2, data |-> PyBytes(<<>>)],
      [id |-> 2, wire_type |-> 2, data |-> PyBytes(<<116, 101>>)],
      [id |-> 1, wire_type |-> 5, data |-> PyBytes(<<1, 0, 0, 0>>)],
      [id |-> 3, wire_type |-> 1,
       data |-> PyBytes(<<210, 2, 150, 73, 0, 0, 0, 0>>)],
      [id |-> 4, wire_type |-> 3, data |-> PyNone],
      [id |-> 4, wire_type |-> 4, data |-> PyNone],
      [id |-> 5, wire_type |-> 6, data |-> PyNone],
      [id |-> 5, wire_type |-> 7, data |-> PyNone] }

SeqsUpTo(S, n) == UNION { [1..m -> S] : m \in 0..n }

MsgBytes(m) == Concat([i \in 1..Len(m) |-> RecordBytes(m[i])])

\* The offsets of the record boundaries of the stream of m.
Boundaries(m) == { Len(MsgBytes(SubSeq(m, 1, i))) : i \in 0..Len(m) }

IdleParse ==
    /\ fmtstr = <<>> /\ ptr = 0 /\ field_id = 0 /\ parsed_list = <<>>
    /\ parser_used_fields = Nothing /\ tokens = <<>>
IdleCodec ==
    /\ wire = Nothing /\ stuff = PyNone /\ encoded = Nothing
    /\ decoded = Nothing
IdleRaw ==
    /\ data = <<>> /\ buf = <<>> /\ wire_type = Nothing
    /\ field_number = Nothing /\ fields = <<>> /\ msg = <<>>

RawInit ==
    /\ msg \in SeqsUpTo(SampleRecords, MaxRecords)
    /\ \E cut \in 0..Len(MsgBytes(msg)) : data = Take(MsgBytes(msg), cut)
    /\ buf = data
    /\ wire_type = Nothing
    /\ field_number = Nothing
    /\ fields = <<>>
    /\ pc = "loop"
    /\ exc = Nothing
    /\ IdleParse /\ IdleCodec

RawIter == {YieldIter(buf, TRUE, wire_type, field_number)}

\* The loop yields one record.
RawYield ==
    /\ pc = "loop"
    /\ \E it \in RawIter :
           /\ it.kind = "yield"
           /\ buf' = it.buf
           /\ wire_type' = it.wire_type
           /\ field_number' = it.field_number
           /\ fields' = Append(fields, it.field)
    /\ UNCHANGED <<pc, exc, data, msg, parseVars, codecVars>>

\* The same with the header of the unsupported wire type left in the buffer.
RawSkip_HeaderKept ==
    /\ pc = "loop"
    /\ \E it \in RawIter :
           /\ it.kind = "continue"
           /\ buf' = buf
           /\ wire_type' = it.wire_type
           /\ field_number' = it.field_number
    /\ UNCHANGED <<pc, exc, data, fields, msg, parseVars, codecVars>>

\* The loop meets a header of an unsupported wire type and goes on.
RawSkip ==
    /\ pc = "loop"
    /\ \E it \in RawIter :
           /\ it.kind = "continue"
           /\ buf' = it.buf
           /\ wire_type' = it.wire_type
           /\ field_number' = it.field_number
    /\ UNCHANGED <<pc, exc, data, fields, msg, parseVars, codecVars>>

\* The loop is left: decode_raw returns tuple(fields).
RawReturn ==
    /\ pc = "loop"
    /\ \E it \in RawIter : it.kind = "break"
    /\ pc' = "done"
    /\ UNCHANGED <<exc, rawVars, parseVars, codecVars>>

\* CodecError propagates out of decode_raw.
RawRaise ==
    /\ pc = "loop"
    /\ \E it \in RawIter :
           /\ it.kind = "raise"
           /\ exc' = Raise("CodecError", UnexpectedEOM, it.field_number.v)
           /\ field_number' = it.field_number
    /\ pc' = "raised"
    /\ UNCHANGED <<data, buf, wire_type, fields, msg, parseVars, codecVars>>

RawNext == RawYield \/ RawSkip \/ RawReturn \/ RawRaise

SpecRaw == RawInit /\ [][RawNext]_vars

\* C3: decoding a stream that ends inside a record fails with CodecError
\* ('Unexpected end of message'); it ends without error only when the stream
\* ends exactly on a record boundary.
C3_TruncationRaises ==
    pc \in {"done", "raised"} =>
        (Len(data) \in Boundaries(msg)
            => pc = "done") /\
        (Len(data) \notin Boundaries(msg)
            => pc = "raised" /\ exc.exc = "CodecError"
                             /\ exc.what = UnexpectedEOM)

-----------------------------------------------------------------------------
(* Overlap checker *)

\* A Python list read at index i (negative indices count from the end).
PyAt(l, i) == IF i < 0 THEN l[Len(l) + i + 1] ELSE l[i + 1]
PySet(l, i, v) == [l EXCEPT ![IF i < 0 THEN Len(l) + i + 1 ELSE i + 1] = v]
\* list.insert(i, v) and del list[i], for 0 <= i <= len.
PyInsert(l, i, v) == SubSeq(l, 1, i) \o <<v>> \o SubSeq(l, i + 1, Len(l))
PyDel(l, i) == SubSeq(l, 1, i) \o SubSeq(l, i + 2, Len(l))

\* bisect.bisect_right(a, x)
RECURSIVE bisect_right_loop(_, _, _, _)
bisect_right_loop(a, x, lo, hi) ==
    IF lo >= hi THEN lo
    ELSE LET mid == (lo + hi) \div 2
         IN  IF x < PyAt(a, mid) THEN bisect_right_loop(a, x, lo, mid)
             ELSE bisect_right_loop(a, x, mid + 1, hi)

bisect_right(a, x) == bisect_right_loop(a, x, 0, Len(a))

\* _check_overlap without the test that the new interval ends inside the gap.
_check_overlap_between_NoEndTest(u, start, end) ==
    With(bisect_right(u, start), LAMBDA offset :
        IF offset % 2 # 0 THEN [success |-> FALSE, used |-> Some(u)]
        ELSE [success |-> TRUE,
              used |-> Some(PyInsert(PyInsert(u, offset, end), offset, start))])

\* The part of _check_overlap after the append and prepend cases: u is the
\* boundary list, [start, end) the new interval.
_check_overlap_between(u, start, end) ==
    With(bisect_right(u, start), LAMBDA offset :
    LET gap_start == PyAt(u, offset - 1)
        gap_end == PyAt(u, offset)
    IN  IF offset % 2 # 0 THEN [success |-> FALSE, used |-> Some(u)]
        ELSE IF end > gap_end THEN [success |-> FALSE, used |-> Some(u)]
        ELSE IF gap_start # start /\ gap_end # end
             THEN [success |-> TRUE,
                   used |-> Some(PyInsert(PyInsert(u, offset, end),
                                          offset, start))]
        ELSE IF gap_end # end
             THEN [success |-> TRUE, used |-> Some(PySet(u, offset - 1, end))]
        ELSE IF gap_start # start
             THEN [success |-> TRUE, used |-> Some(PySet(u, offset, start))]
        ELSE [success |-> TRUE,
              used |-> Some(PyDel(PyDel(u, offset - 1), offset - 1))])

\* The same with an interval that starts at the end of the last one appended
\* as an interval of its own.
_check_overlap_NoCoalesce(puf, start, span) ==
    LET end == start + span
        u == puf.v
    IN  IF ~puf.some THEN [success |-> TRUE, used |-> Some(<<start, end>>)]
        ELSE IF start >= PyAt(u, -1)
             THEN [success |-> TRUE, used |-> Some(u \o <<start, end>>)]
        ELSE IF end = PyAt(u, 0)
             THEN [success |-> TRUE, used |-> Some(PySet(u, 0, start))]
        ELSE IF end < PyAt(u, 0)
             THEN [success |-> TRUE, used |-> Some(<<start, end>> \o u)]
        ELSE _check_overlap_between(u, start, end)

\* _OverlapCheck._check_overlap(start, span) on the boundary list puf
\* (Nothing before the first call): whether it succeeds, and the list after.
_check_overlap(puf, start, span) ==
    LET end == start + span
        u == puf.v
    IN  IF ~puf.some THEN [success |-> TRUE, used |-> Some(<<start, end>>)]
        ELSE IF start = PyAt(u, -1)
             THEN [success |-> TRUE, used |-> Some(PySet(u, -1, end))]
        ELSE IF start > PyAt(u, -1)
             THEN [success |-> TRUE, used |-> Some(u \o <<start, end>>)]
        ELSE IF end = PyAt(u, 0)
             THEN [success |-> TRUE, used |-> Some(PySet(u, 0, start))]
        ELSE IF end < PyAt(u, 0)
             THEN [success |-> TRUE, used |-> Some(<<start, end>> \o u)]
        ELSE _check_overlap_between(u, start, end)

\* fmt.get('repeat', 1)
Repeat(f) == IF f.repeat.some THEN f.repeat.v ELSE 1

MultipleDefinitions == "Multiple definitions found for field"

\* _OverlapCheck.add_field: the checker and the list after the call, or
\* BadFormatString.  The exception carries the descriptor that was refused
\* and the descriptors laid out before it at its nesting level.
add_field(puf, plist, parsed_field) ==
    With(_check_overlap(puf, parsed_field.field_id, Repeat(parsed_field)),
         LAMBDA c :
        IF ~c.success
        THEN Raise("BadFormatString", MultipleDefinitions,
                   [field |-> parsed_field, before |-> plist])
        ELSE [ok |-> TRUE, used |-> c.used,
              parsed_list |-> Append(plist, parsed_field)])

-----------------------------------------------------------------------------
(* Schema parsers *)

PREFIX_REQUIRED == "*"
PREFIX_REPEATED == "+"
PREFIX_REPEATED_PACKED == "#"
TYPE_BYTES == "a"
TYPE_EMPTY == "x"

TypeChars == {"d", "f", "t", "T", "z", "I", "Q", "i", "q", "b", "U", "a", "x"}
AliasChars == {"v", "V", "l", "L", "u"}

\* Wire._FIELD_ALIAS
_FIELD_ALIAS(c) ==
    CASE c = "v" -> "z" [] c = "V" -> "T" [] c = "l" -> "i"
      [] c = "L" -> "I" [] c = "u" -> "U"

DigitChars == <<"0", "1", "2", "3", "4", "5", "6", "7", "8", "9">>
IsDigit(c) == \E d \in 1..10 : DigitChars[d] = c
DigitValue(c) == (CHOOSE d \in 1..10 : DigitChars[d] = c) - 1

\* The character of s at the 0-based index p.
CharAt(s, p) == s[p + 1]

\* The length of the run of digits of s from index p: what \d* takes.
RECURSIVE DigitRun(_, _)
DigitRun(s, p) ==
    IF p < Len(s) /\ IsDigit(CharAt(s, p)) THEN 1 + DigitRun(s, p + 1) ELSE 0

\* int(s[p:p+n]) for a run of n digits.
RECURSIVE IntOf(_, _, _, _)
IntOf(s, p, n, acc) ==
    IF n = 0 THEN acc
    ELSE IntOf(s, p + 1, n - 1, (acc * 10) + DigitValue(CharAt(s, p)))

\* _T_PREFIX = ^([\*\+#]?)(\[?) matched against s[p:].
MatchPrefix(s, p) ==
    LET g1 == IF p < Len(s) /\ CharAt(s, p) \in {"*", "+", "#"}
              THEN CharAt(s, p) ELSE ""
        p1 == IF g1 # "" THEN p + 1 ELSE p
        g2 == p1 < Len(s) /\ CharAt(s, p1) = "["
    IN  [g1 |-> g1, g2 |-> g2, end |-> IF g2 THEN p1 + 1 ELSE p1]

\* _T_FIELD_SEEK = ^@(\d+) matched against s[p:].
MatchFieldSeek(s, p) ==
    IF p < Len(s) /\ CharAt(s, p) = "@" /\ DigitRun(s, p + 1) > 0
    THEN [matched |-> TRUE,
          n |-> IntOf(s, p + 1, DigitRun(s, p + 1), 0),
          end |-> p + 1 + DigitRun(s, p + 1)]
    ELSE [matched |-> FALSE, end |-> p]

\* _T_FMT = ^(?:(type)|(alias))(\d*)(?:@(\d+))? matched against s[p:]:
\* group 3 is the repeat count, group 4 the field seek.
MatchFmt(s, p) ==
    IF p >= Len(s) \/ CharAt(s, p) \notin (TypeChars \cup AliasChars)
    THEN [matched |-> FALSE]
    ELSE LET n3 == DigitRun(s, p + 1)
             seek == MatchFieldSeek(s, p + 1 + n3)
         IN  [matched |-> TRUE,
              char |-> CharAt(s, p),
              alias |-> CharAt(s, p) \in AliasChars,
              g3 |-> IF n3 > 0 THEN Some(IntOf(s, p + 1, n3, 0)) ELSE Nothing,
              g4 |-> IF seek.matched THEN Some(seek.n) ELSE Nothing,
              end |-> seek.end]

\* The field type of a matched token: an alias is resolved.
ResolvedType(m) == IF m.alias THEN _FIELD_ALIAS(m.char) ELSE m.char

\* Where a field is laid out: at the seek when there is one, else at the
\* running counter.
SeekOr(counter, seek) == IF seek.some THEN seek.v ELSE counter

\* The running counter advanced by one whatever the repeat count.
AfterToken_ByOne(start, g3) == start + 1

\* The running counter after a scalar token laid out at start.
AfterToken(start, g3) == IF g3.some THEN start + g3.v ELSE start + 1

\* _match_brace(string, start_pos): the index of the bracket closing the one
\* at start_pos, or None.
RECURSIVE _match_brace_loop(_, _, _)
_match_brace_loop(string, i, depth) ==
    IF i >= Len(string) THEN Nothing
    ELSE LET char == CharAt(string, i)
             d == IF char = "[" THEN depth + 1
                  ELSE IF char = "]" THEN depth - 1 ELSE depth
         IN  IF d = 0 THEN Some(i) ELSE _match_brace_loop(string, i + 1, d)

_match_brace(string, start_pos) ==
    IF CharAt(string, start_pos) # "[" THEN Nothing
    ELSE _match_brace_loop(string, start_pos + 1, 1)

\* The state of a parser between two fields.
ParserState(p, fid, plist, puf) ==
    [ok |-> TRUE, ptr |-> p, field_id |-> fid, parsed_list |-> plist,
     used |-> puf]

\* A descriptor of the format-string dialect.
Parsed(prefix, ftype, fid, repeat, sub) ==
    [prefix |-> prefix, field_type |-> ftype, field_id |-> fid,
     repeat |-> repeat, subcontent |-> sub, name |-> Nothing]

\* add_field, then on with the parser at ptr p and counter fid.
AddAndGo(st, parsed_field, p, fid) ==
    With(add_field(st.used, st.parsed_list, parsed_field), LAMBDA a :
        IF ~a.ok THEN a ELSE ParserState(p, fid, a.parsed_list, a.used))

RECURSIVE _parse_format_string(_)

\* The same with the seek after a nested group kept for the field after it:
\* the nested field is laid out at the running counter.
FmtStrIter_SeekAfterNested(s, st) ==
    With(MatchPrefix(s, st.ptr), LAMBDA m_prefix :
    IF m_prefix.g2
    THEN With(_match_brace(s, m_prefix.end - 1), LAMBDA brace_offset :
         IF ~brace_offset.some
         THEN Raise("BadFormatString", "Unmatched brace", m_prefix.end)
         ELSE With(_parse_format_string(
                       SubSeq(s, m_prefix.end + 1, brace_offset.v)),
                   LAMBDA sub :
              IF ~sub.ok THEN sub
              ELSE With(MatchFieldSeek(s, brace_offset.v + 1),
                        LAMBDA m_field_seek :
                   AddAndGo(st,
                       Parsed(m_prefix.g1, TYPE_BYTES, st.field_id, Nothing,
                              Some(sub.val)),
                       m_field_seek.end,
                       IF m_field_seek.matched THEN m_field_seek.n
                       ELSE st.field_id + 1))))
    ELSE With(MatchFmt(s, m_prefix.end), LAMBDA m_fmt :
         IF ~m_fmt.matched
         THEN Raise("BadFormatString", "Invalid token", m_prefix.end)
         ELSE With(SeekOr(st.field_id, m_fmt.g4), LAMBDA start :
              AddAndGo(st,
                  Parsed(m_prefix.g1, ResolvedType(m_fmt), start,
                         Some(IF m_fmt.g3.some THEN m_fmt.g3.v ELSE 1),
                         Nothing),
                  m_fmt.end, AfterToken(start, m_fmt.g3)))))

\* One pass through the `while ptr < length' loop of _parse_format_string.
FmtStrIter(s, st) ==
    With(MatchPrefix(s, st.ptr), LAMBDA m_prefix :
    IF m_prefix.g2
    THEN With(_match_brace(s, m_prefix.end - 1), LAMBDA brace_offset :
         IF ~brace_offset.some
         THEN Raise("BadFormatString", "Unmatched brace", m_prefix.end)
         ELSE With(_parse_format_string(
                       SubSeq(s, m_prefix.end + 1, brace_offset.v)),
                   LAMBDA sub :
              IF ~sub.ok THEN sub
              ELSE With(MatchFieldSeek(s, brace_offset.v + 1),
                        LAMBDA m_field_seek :
                   With(SeekOr(st.field_id, IF m_field_seek.matched
                                            THEN Some(m_field_seek.n)
                                            ELSE Nothing),
                        LAMBDA nested_id :
                   AddAndGo(st,
                       Parsed(m_prefix.g1, TYPE_BYTES, nested_id, Nothing,
                              Some(sub.val)),
                       m_field_seek.end, nested_id + 1)))))
    ELSE With(MatchFmt(s, m_prefix.end), LAMBDA m_fmt :
         IF ~m_fmt.matched
         THEN Raise("BadFormatString", "Invalid token", m_prefix.end)
         ELSE With(SeekOr(st.field_id, m_fmt.g4), LAMBDA start :
              AddAndGo(st,
                  Parsed(m_prefix.g1, ResolvedType(m_fmt), start,
                         Some(IF m_fmt.g3.some THEN m_fmt.g3.v ELSE 1),
                         Nothing),
                  m_fmt.end, AfterToken(start, m_fmt.g3)))))

RECURSIVE FmtStrLoop(_, _)
FmtStrLoop(s, st) ==
    IF ~st.ok THEN st
    ELSE IF st.ptr < Len(s)
         THEN With(FmtStrIter(s, st), LAMBDA next : FmtStrLoop(s, next))
    ELSE Ok(st.parsed_list)

_parse_format_string(s) == FmtStrLoop(s, ParserState(0, 1, <<>>, Nothing))


\* An entry of a key-value format list: (name, fmt) or (name, fmt, nested),
\* where fmt is a string or, for a nested message, a list of entries.
KvEntry(name, chars) ==
    [name |-> name, fmt |-> PyStr(chars), len |-> 2, nested |-> <<>>]
KvEntryNested(name, chars, nested) ==
    [name |-> name, fmt |-> PyStr(chars), len |-> 3, nested |-> nested]
KvEntryList(name, list) ==
    [name |-> name, fmt |-> PyTuple(list), len |-> 2, nested |-> <<>>]

\* A descriptor of the key-value dialect.
ParsedKv(name, prefix, ftype, fid, repeat, sub) ==
    [prefix |-> prefix, field_type |-> ftype, field_id |-> fid,
     repeat |-> repeat, subcontent |-> sub, name |-> Some(name)]

RECURSIVE _parse_kvfmt(_)

\* The string branch of the loop of _parse_kvfmt: entry is (name, fmt) or
\* (name, fmt, nested) with fmt a string.
KvFmtStr(entry, st) ==
    With(entry.fmt.s, LAMBDA s :
    With(MatchPrefix(s, 0), LAMBDA m_prefix :
    With(IF m_prefix.end # Len(s) THEN MatchFieldSeek(s, m_prefix.end)
         ELSE [matched |-> FALSE, end |-> m_prefix.end],
         LAMBDA m_field_seek :
    With(SeekOr(st.field_id, IF m_field_seek.matched
                             THEN Some(m_field_seek.n) ELSE Nothing),
         LAMBDA fid1 :
    IF m_prefix.g2 /\ entry.len > 2
    THEN With(_parse_kvfmt(entry.nested), LAMBDA sub :
         IF ~sub.ok THEN sub
         ELSE AddAndGo(st,
                  ParsedKv(entry.name, m_prefix.g1, TYPE_BYTES, fid1,
                           Nothing, Some(sub.val)),
                  st.ptr + 1, fid1 + 1))
    ELSE IF m_prefix.g2
    THEN Raise("BadFormatString",
               "Nested field type used without specifying field format",
               entry.name)
    ELSE With(MatchFmt(s, m_field_seek.end), LAMBDA m_fmt :
         IF ~m_fmt.matched
         THEN Raise("BadFormatString", "Invalid type for field", entry.name)
         ELSE IF m_fmt.g3.some /\ m_fmt.char # TYPE_EMPTY
         THEN Raise("BadFormatString",
                    "Field copying is not allowed in key-value format list",
                    entry.name)
         ELSE IF Len(s) # m_fmt.end
         THEN Raise("BadFormatString", "Unrecognized fragment", entry.name)
         ELSE With(SeekOr(fid1, m_fmt.g4), LAMBDA start :
              AddAndGo(st,
                  ParsedKv(entry.name, m_prefix.g1, ResolvedType(m_fmt),
                           start, m_fmt.g3, Nothing),
                  st.ptr + 1, AfterToken(start, m_fmt.g3))))))))

\* One pass through the `for entry in fmtlist' loop of _parse_kvfmt, for the
\* entry at index st.ptr.
KvFmtIter(fmtlist, st) ==
    With(fmtlist[st.ptr + 1], LAMBDA entry :
    IF entry.fmt.k = "str" THEN KvFmtStr(entry, st)
    ELSE With(_parse_kvfmt(entry.fmt.t), LAMBDA sublist :
         IF ~sublist.ok THEN sublist
         ELSE AddAndGo(st,
                  ParsedKv(entry.name, "", TYPE_BYTES, st.field_id, Nothing,
                           Some(sublist.val)),
                  st.ptr + 1, st.field_id + 1)))

RECURSIVE KvFmtLoop(_, _)
KvFmtLoop(fmtlist, st) ==
    IF ~st.ok THEN st
    ELSE IF st.ptr < Len(fmtlist)
         THEN With(KvFmtIter(fmtlist, st),
                   LAMBDA next : KvFmtLoop(fmtlist, next))
    ELSE Ok(st.parsed_list)

_parse_kvfmt(fmtlist) == KvFmtLoop(fmtlist, ParserState(0, 1, <<>>, Nothing))

-----------------------------------------------------------------------------
(* Compiling a schema written from tokens, one field per step *)

MaxTokens == 3

\* A token of a schema: a scalar (type character, repeat count k, seek) or a
\* nested group (its inner tokens, seek); k and seek may be omitted.
Scalar(prefix, char, k, seek) ==
    [kind |-> "scalar", prefix |-> prefix, char |-> char, k |-> k,
     seek |-> seek, inner |-> <<>>]
Group(prefix, inner, seek) ==
    [kind |-> "group", prefix |-> prefix, char |-> "[", k |-> Nothing,
     seek |-> seek, inner |-> inner]

RECURSIVE ToDigits(_)
ToDigits(n) ==
    IF n < 10 THEN <<DigitChars[n + 1]>>
    ELSE ToDigits(n \div 10) \o <<DigitChars[(n % 10) + 1]>>

PrefixChars(t) == IF t.prefix = "" THEN <<>> ELSE <<t.prefix>>
CountChars(t) == IF t.k.some THEN ToDigits(t.k.v) ELSE <<>>
SeekChars(t) == IF t.seek.some THEN <<"@">> \o ToDigits(t.seek.v) ELSE <<>>

\* The format string a token list is written as.
RECURSIVE WriteFmtStr(_)
WriteFmtStr(ts) ==
    IF ts = <<>> THEN <<>>
    ELSE LET t == Head(ts)
         IN  (IF t.kind = "group"
              THEN PrefixChars(t) \o <<"[">> \o WriteFmtStr(t.inner)
                   \o <<"]">> \o SeekChars(t)
              ELSE PrefixChars(t) \o <<t.char>> \o CountChars(t)
                   \o SeekChars(t))
             \o WriteFmtStr(Tail(ts))

FieldNames == <<"f1", "f2", "f3", "f4", "f5">>

\* The key-value format list a token list is written as; the entry of the
\* i-th token is named FieldNames[i].
RECURSIVE WriteKvFmt(_)
WriteKvFmt(ts) ==
    [i \in 1..Len(ts) |->
        LET t == ts[i]
        IN  IF t.kind = "group"
            THEN KvEntryNested(FieldNames[i],
                               PrefixChars(t) \o <<"[">> \o SeekChars(t),
                               WriteKvFmt(t.inner))
            ELSE KvEntry(FieldNames[i],
                         PrefixChars(t) \o <<t.char>> \o CountChars(t)
                         \o SeekChars(t))]

SeekSamples == {Nothing} \cup { Some(n) : n \in 1..5 }

\* Tokens of format strings: any scalar may be copied.
FmtStrTokens ==
    { Scalar("", "V", k, seek) : k \in {Nothing, Some(2)}, seek \in SeekSamples }
    \cup { Group("", <<Scalar("", "U", Nothing, Nothing)>>, seek) :
             seek \in {Nothing, Some(3)} }

\* Tokens of key-value lists: only a skip slot may be copied.
KvFmtTokens ==
    { Scalar("", "V", Nothing, seek) : seek \in SeekSamples }
    \cup { Scalar("", "x", Some(2), seek) : seek \in SeekSamples }
    \cup { Group("", <<Scalar("", "U", Nothing, Nothing)>>, seek) :
             seek \in {Nothing, Some(3)} }

\* 'V2@2U@10U@20' and its key-value counterpart (test_field_seek_*_simple).
FieldSeekSimple ==
    <<Scalar("", "V", Some(2), Some(2)), Scalar("", "U", Nothing, Some(10)),
      Scalar("", "U", Nothing, Some(20))>>
FieldSeekSimpleKv ==
    <<Scalar("", "V", Nothing, Some(2)), Scalar("", "V", Nothing, Nothing),
      Scalar("", "U", Nothing, Some(10)), Scalar("", "U", Nothing, Some(20))>>

\* A single field or nested group with a seek to the number below the range
\* of field numbers, to the ends of the band reserved by Protocol Buffers, to
\* the last number of the range and to the one above it.
FarSeeks ==
    { <<Scalar("", "U", Nothing, Some(n))>> :
        n \in {0, 19000, 19999, 536870911, 536870912} }
    \cup { <<Group("", <<Scalar("", "U", Nothing, Nothing)>>, Some(n))>> :
             n \in {0, 19000, 536870912} }

ParseInit ==
    /\ \/ /\ pc = "fmtstr"
          /\ tokens \in SeqsUpTo(FmtStrTokens, MaxTokens)
                         \cup {FieldSeekSimple} \cup FarSeeks
          /\ fmtstr = WriteFmtStr(tokens)
       \/ /\ pc = "kvfmt"
          /\ tokens \in SeqsUpTo(KvFmtTokens, MaxTokens)
                         \cup {FieldSeekSimpleKv} \cup FarSeeks
          /\ fmtstr = WriteKvFmt(tokens)
    /\ ptr = 0
    /\ field_id = 1
    /\ parsed_list = <<>>
    /\ parser_used_fields = Nothing
    /\ exc = Nothing
    /\ IdleRaw /\ IdleCodec

ParserNow == ParserState(ptr, field_id, parsed_list, parser_used_fields)

\* _parse_format_string lays out the next field.
FmtStrField ==
    /\ pc = "fmtstr" /\ ptr < Len(fmtstr)
    /\ \E r \in {FmtStrIter(fmtstr, ParserNow)} :
           /\ r.ok
           /\ ptr' = r.ptr
           /\ field_id' = r.field_id
           /\ parsed_list' = r.parsed_list
           /\ parser_used_fields' = r.used
    /\ UNCHANGED <<pc, exc, fmtstr, tokens, rawVars, codecVars>>

\* _parse_format_string raises BadFormatString.
FmtStrRaise ==
    /\ pc = "fmtstr" /\ ptr < Len(fmtstr)
    /\ \E r \in {FmtStrIter(fmtstr, ParserNow)} :
           /\ ~r.ok
           /\ exc' = r
    /\ pc' = "raised"
    /\ UNCHANGED <<parseVars, rawVars, codecVars>>

\* _parse_format_string returns parsed_list.
FmtStrReturn ==
    /\ pc = "fmtstr" /\ ptr >= Len(fmtstr)
    /\ pc' = "done"
    /\ UNCHANGED <<exc, parseVars, rawVars, codecVars>>

\* _parse_kvfmt lays out the field of the next entry.
KvFmtField ==
    /\ pc = "kvfmt" /\ ptr < Len(fmtstr)
    /\ \E r \in {KvFmtIter(fmtstr, ParserNow)} :
           /\ r.ok
           /\ ptr' = r.ptr
           /\ field_id' = r.field_id
           /\ parsed_list' = r.parsed_list
           /\ parser_used_fields' = r.used
    /\ UNCHANGED <<pc, exc, fmtstr, tokens, rawVars, codecVars>>

\* _parse_kvfmt raises BadFormatString.
KvFmtRaise ==
    /\ pc = "kvfmt" /\ ptr < Len(fmtstr)
    /\ \E r \in {KvFmtIter(fmtstr, ParserNow)} :
           /\ ~r.ok
           /\ exc' = r
    /\ pc' = "raised"
    /\ UNCHANGED <<parseVars, rawVars, codecVars>>

\* _parse_kvfmt returns parsed_list.
KvFmtReturn ==
    /\ pc = "kvfmt" /\ ptr >= Len(fmtstr)
    /\ pc' = "done"
    /\ UNCHANGED <<exc, parseVars, rawVars, codecVars>>

ParseNext ==
    \/ FmtStrField \/ FmtStrRaise \/ FmtStrReturn
    \/ KvFmtField \/ KvFmtRaise \/ KvFmtReturn

SpecParse == ParseInit /\ [][ParseNext]_vars

\* The field numbers [field_id, field_id + repeat) of a descriptor.
Range(f) == f.field_id .. (f.field_id + Repeat(f) - 1)

PairwiseDisjoint(plist) ==
    \A i, j \in 1..Len(plist) : i # j => Range(plist[i]) \cap Range(plist[j]) = {}

\* C2: at one nesting level a schema of either dialect compiles if and only
\* if the ranges [field_number, field_number + repeat) of its descriptors
\* are pairwise disjoint: the descriptors laid out are pairwise disjoint, and
\* compilation fails only with BadFormatString 'Multiple definitions found',
\* raised for a descriptor whose range meets that of an earlier descriptor.
C2_OverlapDetection ==
    /\ PairwiseDisjoint(parsed_list)
    /\ pc = "raised" =>
          /\ exc.exc = "BadFormatString"
          /\ exc.what = MultipleDefinitions
          /\ \E i \in 1..Len(exc.at.before) :
                Range(exc.at.before[i]) \cap Range(exc.at.field) # {}

\* C2's case: a descriptor placed between two earlier ranges is refused.
C2_Witness ==
    /\ pc = "raised"
    /\ exc.what = MultipleDefinitions
    /\ \E i, j \in 1..Len(exc.at.before) :
          /\ exc.at.before[i].field_id < exc.at.field.field_id
          /\ exc.at.field.field_id < exc.at.before[j].field_id

\* The field numbers a descriptor list takes, copies expanded.
RECURSIVE FieldNumbers(_)
FieldNumbers(plist) ==
    IF plist = <<>> THEN <<>>
    ELSE [i \in 1..Repeat(Head(plist)) |-> Head(plist).field_id + i - 1]
         \o FieldNumbers(Tail(plist))

\* The token a parser step has just laid out, when it is a scalar token.
LaidOutScalar ==
    /\ Len(parsed_list') = Len(parsed_list) + 1
    /\ tokens[Len(parsed_list')].kind = "scalar"

\* C10: in both dialects the running counter starts at 1; a scalar token
\* without '@' is laid out at the running counter, a scalar token with '@N'
\* at N; after either the counter is the start of the token plus k (1 when
\* the digit run is omitted).  Hence 'V2@2U@10U@20' and its key-value
\* counterpart take the field numbers 2, 3, 10, 20.
C10_FieldNumbering ==
    /\ [](parsed_list = <<>> /\ pc \in {"fmtstr", "kvfmt"} => field_id = 1)
    /\ [][LaidOutScalar =>
            LET t == tokens[Len(parsed_list')]
                f == parsed_list'[Len(parsed_list')]
            IN  /\ f.field_id = (IF t.seek.some THEN t.seek.v ELSE field_id)
                /\ field_id' = f.field_id + (IF t.k.some THEN t.k.v ELSE 1)]_vars
    /\ [](pc = "done" /\ tokens \in {FieldSeekSimple, FieldSeekSimpleKv}
            => FieldNumbers(parsed_list) = <<2, 3, 10, 20>>)

\* C10's case: 'V2@2U@10U@20' has compiled, through a token with a seek and a
\* repeat count.
C10_Witness ==
    /\ pc = "done"
    /\ tokens = FieldSeekSimple
    /\ Len(parsed_list) = 3
    /\ parsed_list[1].field_id = 2 /\ parsed_list[1].repeat = Some(2)

-----------------------------------------------------------------------------
(* Scalar codec *)

\* A Python float, by the fields of its IEEE 754 double: the sign, the biased
\* exponent and the 52-bit fraction as its high 23 and low 29 bits.
PyFloat(sign, exp, hi, lo) ==
    [k |-> "float", sign |-> sign, exp |-> exp, hi |-> hi, lo |-> lo]

\* The same with a mask one bit short of the width.
_vint_signedto2sc_NarrowMask(number, mask) == number % ((mask + 1) \div 2)

\* number & mask, for a mask of the form 2^bits - 1.
_vint_signedto2sc(number, mask) == number % (mask + 1)

\* The varint taken as it is, the sign bit ignored.
_vint_2sctosigned_NoSign(number, max_bits, mask) == number

\* ~(~number & mask) when the sign bit (max_bits - 1) is set.
_vint_2sctosigned(number, max_bits, mask) ==
    IF (number \div (2 ^ (max_bits - 1))) % 2 = 1
    THEN (0 - ((((0 - number) - 1) % (mask + 1)))) - 1
    ELSE number

\* The same without the complement of a negative number's shift.
_vint_zigzagify_NoComplement(number) ==
    IF number < 0 THEN 0 - (2 * number) ELSE 2 * number

_vint_zigzagify(number) ==
    IF number < 0 THEN (0 - (2 * number)) - 1 ELSE 2 * number

_vint_dezigzagify(number) ==
    IF number % 2 = 1 THEN (0 - (number \div 2)) - 1 ELSE number \div 2

\* The n low bytes of the two's complement of v, least significant first.
RECURSIVE PackLE(_, _)
PackLE(v, n) ==
    IF n = 0 THEN <<>> ELSE <<v % 256>> \o PackLE(v \div 256, n - 1)

\* The unsigned and the signed integer of little-endian bytes.
RECURSIVE UnpackUnsigned(_)
UnpackUnsigned(b) ==
    IF b = <<>> THEN 0 ELSE Head(b) + (256 * UnpackUnsigned(Tail(b)))

RECURSIVE UnpackSigned(_)
UnpackSigned(b) ==
    IF Len(b) = 1 THEN (IF Head(b) >= 128 THEN Head(b) - 256 ELSE Head(b))
    ELSE Head(b) + (256 * UnpackSigned(Tail(b)))

\* struct.pack('<d', x): sign, 11 bits of exponent, 52 bits of fraction.
PackDouble(x) ==
    << x.lo % 256,
       (x.lo \div 256) % 256,
       (x.lo \div 65536) % 256,
       (x.lo \div 16777216) + ((x.hi % 8) * 32),
       (x.hi \div 8) % 256,
       (x.hi \div 2048) % 256,
       (x.hi \div 524288) + ((x.exp % 16) * 16),
       (x.exp \div 16) + (x.sign * 128) >>

\* struct.unpack('<d', b)[0]
UnpackDouble(b) ==
    PyFloat(b[8] \div 128,
            ((b[8] % 128) * 16) + (b[7] \div 16),
            ((b[7] % 16) * 524288) + (b[6] * 2048) + (b[5] * 8)
                + (b[4] \div 32),
            ((b[4] % 32) * 16777216) + (b[3] * 65536) + (b[2] * 256) + b[1])

\* The single-precision fields (sign, 8 bits of exponent, 23 of fraction) a
\* finite double rounds to, to nearest and to even on a tie; zero stays zero.
\* Doubles below the normal range of a single are not modelled.
RoundToSingle(x) ==
    LET up == x.lo > 268435456 \/ (x.lo = 268435456 /\ x.hi % 2 = 1)
        m == IF up THEN x.hi + 1 ELSE x.hi
        e == IF m = 8388608 THEN x.exp - 895 ELSE x.exp - 896
    IN  IF x.exp = 0 /\ x.hi = 0 /\ x.lo = 0
        THEN Ok([sign |-> x.sign, exp |-> 0, frac |-> 0])
        ELSE IF e >= 255
        THEN Raise("OverflowError", "float too large to pack with f format", x)
        ELSE Ok([sign |-> x.sign, exp |-> e, frac |-> m % 8388608])

\* struct.pack('<f', x)
PackFloat(x) ==
    With(RoundToSingle(x), LAMBDA r :
        IF ~r.ok THEN r
        ELSE Ok(<< r.val.frac % 256,
                   (r.val.frac \div 256) % 256,
                   (r.val.frac \div 65536) + ((r.val.exp % 2) * 128),
                   (r.val.exp \div 2) + (r.val.sign * 128) >>))

\* struct.unpack('<f', b)[0]: the double of the same value (zero or normal).
UnpackFloat(b) ==
    LET frac == b[1] + (b[2] * 256) + ((b[3] % 128) * 65536)
        e == (b[3] \div 128) + ((b[4] % 128) * 2)
    IN  PyFloat(b[4] \div 128, IF e = 0 THEN 0 ELSE e + 896, frac, 0)

\* _encode_fixed_length_numerical: struct.pack('<' + field_type, py_data).
\* The unsigned formats refuse a negative number.
_encode_fixed_length_numerical(field_type, py_data) ==
    CASE field_type = "f" -> PackFloat(py_data)
      [] field_type = "d" -> Ok(PackDouble(py_data))
      [] field_type \in {"I", "Q"} /\ py_data.i < 0 ->
            Raise("struct.error", "argument out of range", py_data)
      [] field_type \in {"i", "I"} -> Ok(PackLE(py_data.i, 4))
      [] field_type \in {"q", "Q"} -> Ok(PackLE(py_data.i, 8))

\* _decode_fixed_length_numerical: struct.unpack('<' + field_type, bytes)[0]
_decode_fixed_length_numerical(field_type, field_bytes) ==
    CASE field_type = "f" -> UnpackFloat(field_bytes)
      [] field_type = "d" -> UnpackDouble(field_bytes)
      [] field_type \in {"I", "Q"} -> PyInt(UnpackUnsigned(field_bytes))
      [] field_type \in {"i", "q"} -> PyInt(UnpackSigned(field_bytes))

\* str.encode('utf-8') of one code point; a surrogate is refused.
Utf8EncodeChar(cp) ==
    IF cp < 128 THEN <<cp>>
    ELSE IF cp < 2048 THEN <<192 + (cp \div 64), 128 + (cp % 64)>>
    ELSE IF cp < 65536
         THEN <<224 + (cp \div 4096), 128 + ((cp \div 64) % 64),
                128 + (cp % 64)>>
    ELSE <<240 + (cp \div 262144), 128 + ((cp \div 4096) % 64),
           128 + ((cp \div 64) % 64), 128 + (cp % 64)>>

IsSurrogate(cp) == cp >= 55296 /\ cp <= 57343

\* str.encode('utf-8'): a string is the sequence of its code points.
RECURSIVE Utf8Encode(_)
Utf8Encode(s) ==
    IF s = <<>> THEN Ok(<<>>)
    ELSE IF IsSurrogate(Head(s))
    THEN Raise("UnicodeEncodeError", "surrogates not allowed", Head(s))
    ELSE With(Utf8Encode(Tail(s)), LAMBDA r :
         IF ~r.ok THEN r ELSE Ok(Utf8EncodeChar(Head(s)) \o r.val))

\* The length of the UTF-8 sequence a lead byte opens; 0 for a byte that
\* opens none.
Utf8SeqLen(lead) ==
    IF lead < 128 THEN 1
    ELSE IF lead >= 194 /\ lead <= 223 THEN 2
    ELSE IF lead >= 224 /\ lead <= 239 THEN 3
    ELSE IF lead >= 240 /\ lead <= 244 THEN 4
    ELSE 0

IsContinuation(c) == c >= 128 /\ c <= 191

\* The code point of a well-formed sequence of n bytes.
Utf8CodePoint(b, n) ==
    CASE n = 1 -> b[1]
      [] n = 2 -> ((b[1] - 192) * 64) + (b[2] - 128)
      [] n = 3 -> ((b[1] - 224) * 4096) + ((b[2] - 128) * 64) + (b[3] - 128)
      [] n = 4 -> ((b[1] - 240) * 262144) + ((b[2] - 128) * 4096)
                    + ((b[3] - 128) * 64) + (b[4] - 128)

\* bytes.decode('utf-8'): ill-formed, overlong and surrogate sequences are
\* refused.
RECURSIVE Utf8Decode(_)
Utf8Decode(b) ==
    IF b = <<>> THEN Ok(<<>>)
    ELSE With(Utf8SeqLen(Head(b)), LAMBDA n :
         IF n = 0 \/ Len(b) < n
               \/ \E j \in 2..n : ~IsContinuation(b[j])
         THEN Raise("UnicodeDecodeError", "invalid utf-8", b)
         ELSE With(Utf8CodePoint(b, n), LAMBDA cp :
              IF (n = 3 /\ (cp < 2048 \/ IsSurrogate(cp)))
                    \/ (n = 4 /\ (cp < 65536 \/ cp > 1114111))
              THEN Raise("UnicodeDecodeError", "invalid utf-8", b)
              ELSE With(Utf8Decode(Drop(b, n)), LAMBDA r :
                   IF ~r.ok THEN r ELSE Ok(<<cp>> \o r.val))))

\* _TYPE_TO_WIRE_TYPE_MAP
_TYPE_TO_WIRE_TYPE_MAP(field_type) ==
    CASE field_type \in {"t", "T", "z", "b"} -> Some(_WIRE_TYPE_VARINT)
      [] field_type \in {"Q", "q", "d"} -> Some(_WIRE_TYPE_I64)
      [] field_type \in {"U", "a"} -> Some(_WIRE_TYPE_LEN)
      [] field_type \in {"I", "i", "f"} -> Some(_WIRE_TYPE_I32)
      [] field_type = "x" -> Nothing

\* The same with a 't' outside the range of the mask refused.
_encode_scalar_to_bytes_RangeChecked(field_type, py_data, mask) ==
    CASE field_type = "a" -> Ok(_encode_bytes(py_data.y))
      [] field_type = "U" ->
            With(Utf8Encode(py_data.s), LAMBDA r :
                IF ~r.ok THEN r ELSE Ok(_encode_bytes(r.val)))
      [] field_type = "t" ->
            IF \/ py_data.i < 0 - ((mask + 1) \div 2)
               \/ py_data.i >= (mask + 1) \div 2
            THEN Raise("OverflowError", "number out of range", py_data)
            ELSE Ok(_encode_vint(_vint_signedto2sc(py_data.i, mask)))
      [] field_type = "T" ->
            IF py_data.i < 0
            THEN Raise("AssertionError", "number is less than 0", py_data)
            ELSE Ok(_encode_vint(py_data.i))
      [] field_type = "z" -> Ok(_encode_vint(_vint_zigzagify(py_data.i)))
      [] field_type = "b" -> Ok(_encode_vint(IF py_data.b THEN 1 ELSE 0))
      [] field_type \in {"i", "I", "f", "d", "q", "Q"} ->
            _encode_fixed_length_numerical(field_type, py_data)
      [] OTHER -> Raise("TypeError", "unknown type", field_type)

\* _encode_scalar_to_bytes: the payload of a scalar, without header.
\* _encode_vint asserts number >= 0.
_encode_scalar_to_bytes(field_type, py_data, mask) ==
    CASE field_type = "a" -> Ok(_encode_bytes(py_data.y))
      [] field_type = "U" ->
            With(Utf8Encode(py_data.s), LAMBDA r :
                IF ~r.ok THEN r ELSE Ok(_encode_bytes(r.val)))
      [] field_type = "t" ->
            Ok(_encode_vint(_vint_signedto2sc(py_data.i, mask)))
      [] field_type = "T" ->
            IF py_data.i < 0
            THEN Raise("AssertionError", "number is less than 0", py_data)
            ELSE Ok(_encode_vint(py_data.i))
      [] field_type = "z" -> Ok(_encode_vint(_vint_zigzagify(py_data.i)))
      [] field_type = "b" -> Ok(_encode_vint(IF py_data.b THEN 1 ELSE 0))
      [] field_type \in {"i", "I", "f", "d", "q", "Q"} ->
            _encode_fixed_length_numerical(field_type, py_data)
      [] OTHER -> Raise("TypeError", "unknown type", field_type)

\* _decode_scalar_from_bytes: f_data is what the raw breakdown yielded, an
\* int for a varint record and bytes otherwise.
_decode_scalar_from_bytes(field_type, f_data, max_bits, mask) ==
    CASE field_type = "a" -> Ok(f_data)
      [] field_type = "U" ->
            With(Utf8Decode(f_data.y), LAMBDA r :
                IF ~r.ok THEN r ELSE Ok(PyStr(r.val)))
      [] field_type = "t" ->
            Ok(PyInt(_vint_2sctosigned(f_data.i, max_bits, mask)))
      [] field_type = "T" -> Ok(f_data)
      [] field_type = "z" -> Ok(PyInt(_vint_dezigzagify(f_data.i)))
      [] field_type = "b" -> Ok(PyBool(f_data.i # 0))
      [] field_type \in {"i", "I", "f", "d", "q", "Q"} ->
            Ok(_decode_fixed_length_numerical(field_type, f_data.y))
      [] OTHER -> Raise("TypeError", "unknown type", field_type)

-----------------------------------------------------------------------------
(* Wire: the schema-driven encoder *)

\* The vint_2sc_max_bits setter: the width and its mask (1 << bits) - 1.
vint_2sc_max_bits(w, bits) ==
    [w EXCEPT !.max_bits = bits, !.mask = (2 ^ bits) - 1]

\* Wire.__init__ for a format string or a key-value list that compiles; the
\* width is always handed in.
WireInit(fmt, kv_fmt, bits, allow_sparse_dict) ==
    vint_2sc_max_bits(
        [fmt |-> IF kv_fmt THEN _parse_kvfmt(fmt).val
                 ELSE _parse_format_string(fmt).val,
         kv_fmt |-> kv_fmt, allow_sparse_dict |-> allow_sparse_dict,
         max_bits |-> 0, mask |-> 0],
        bits)

\* Whether fmt.get('subcontent') is truthy: there, and not the empty list.
Truthy(subcontent) == subcontent.some /\ subcontent.v # <<>>

InsufficientParameters == "Insufficient parameters (empty field not padded with None)"
RequiredNone == "Required field cannot be None."

\* The same read with allow_sparse_dict never looked at.
StuffLookup_NeverSparse(w, stuff_, fmt, stuff_id) ==
    IF w.kv_fmt
    THEN IF fmt.name.v \in DOMAIN stuff_.d THEN Some(stuff_.d[fmt.name.v])
         ELSE Nothing
    ELSE IF stuff_id < Len(stuff_.t) THEN Some(stuff_.t[stuff_id + 1])
         ELSE Nothing

\* The read of field_data in _encode_wire: Nothing stands for the IndexError
\* or KeyError.  A positional stuff is a tuple read at stuff_id, a key-value
\* stuff a dict read at the name of the field.
StuffLookup(w, stuff_, fmt, stuff_id) ==
    IF w.kv_fmt
    THEN IF fmt.name.v \in DOMAIN stuff_.d THEN Some(stuff_.d[fmt.name.v])
         ELSE IF w.allow_sparse_dict THEN Some(PyNone)
         ELSE Nothing
    ELSE IF stuff_id < Len(stuff_.t) THEN Some(stuff_.t[stuff_id + 1])
         ELSE Nothing

\* The header with the wire type of the element type under every prefix.
FieldHeader_ElementWireType(fmt, fid) ==
    _encode_header(_TYPE_TO_WIRE_TYPE_MAP(fmt.field_type).v, fid)

\* The header of a field: a packed repeated field has wire type LEN.
FieldHeader(fmt, fid) ==
    _encode_header(IF fmt.prefix = PREFIX_REPEATED_PACKED THEN _WIRE_TYPE_LEN
                   ELSE _TYPE_TO_WIRE_TYPE_MAP(fmt.field_type).v,
                   fid)

\* What one pass of the inner loop of _encode_wire leaves: the bytes written
\* and stuff_id.
Slot(bytes, stuff_id) == [ok |-> TRUE, val |-> bytes, stuff_id |-> stuff_id]

RECURSIVE _encode_wire(_, _, _)

\* Wire._encode_field
_encode_field(w, field_type, field_data, subcontent) ==
    IF field_type = TYPE_BYTES /\ Truthy(subcontent)
    THEN With(_encode_wire(w, field_data, subcontent), LAMBDA r :
         IF ~r.ok THEN r ELSE Ok(_encode_bytes(r.val)))
    ELSE _encode_scalar_to_bytes(field_type, field_data, w.mask)

\* The same with the header written ahead of the first element only.
RECURSIVE EncodeEach_HeaderOnce(_, _, _, _, _)
EncodeEach_HeaderOnce(w, fmt, objs, header, acc) ==
    IF objs = <<>> THEN Ok(acc)
    ELSE With(_encode_field(w, fmt.field_type, Head(objs), fmt.subcontent),
              LAMBDA e :
         IF ~e.ok THEN e
         ELSE With(acc \o (IF acc = <<>> THEN header ELSE <<>>) \o e.val,
                   LAMBDA acc1 :
              EncodeEach_HeaderOnce(w, fmt, Tail(objs), header, acc1)))

\* `for obj in field_data' of a repeated (each element after a header) or a
\* packed repeated (header empty) field.
RECURSIVE EncodeEach(_, _, _, _, _)
EncodeEach(w, fmt, objs, header, acc) ==
    IF objs = <<>> THEN Ok(acc)
    ELSE With(_encode_field(w, fmt.field_type, Head(objs), fmt.subcontent),
              LAMBDA e :
         IF ~e.ok THEN e
         ELSE With(acc \o header \o e.val, LAMBDA acc1 :
              EncodeEach(w, fmt, Tail(objs), header, acc1)))

\* What is written for a field whose data is not None.
EncodeData(w, fmt, fid, field_data) ==
    IF fmt.prefix = PREFIX_REPEATED
    THEN EncodeEach(w, fmt, field_data.t, FieldHeader(fmt, fid), <<>>)
    ELSE IF fmt.prefix = PREFIX_REPEATED_PACKED
    THEN With(EncodeEach(w, fmt, field_data.t, <<>>, <<>>), LAMBDA packed_body :
         IF ~packed_body.ok THEN packed_body
         ELSE Ok(FieldHeader(fmt, fid) \o _encode_bytes(packed_body.val)))
    ELSE With(_encode_field(w, fmt.field_type, field_data, fmt.subcontent),
              LAMBDA e :
         IF ~e.ok THEN e ELSE Ok(FieldHeader(fmt, fid) \o e.val))

\* stuff_id += 1, in positional mode only.
NextStuffId(w, stuff_id) == IF w.kv_fmt THEN stuff_id ELSE stuff_id + 1

\* The same pass without the test of a required field against None.
EncodeSlot_NoRequiredTest(w, stuff_, fmt, fid, stuff_id) ==
    With(StuffLookup(w, stuff_, fmt, stuff_id), LAMBDA field_data :
    IF ~field_data.some
    THEN Raise("CodecError", InsufficientParameters,
               IF w.kv_fmt THEN fmt.name.v ELSE fid)
    ELSE IF fmt.field_type = TYPE_EMPTY THEN Slot(<<>>, stuff_id)
    ELSE IF field_data.v = PyNone THEN Slot(<<>>, NextStuffId(w, stuff_id))
    ELSE With(EncodeData(w, fmt, fid, field_data.v), LAMBDA e :
         IF ~e.ok THEN e ELSE Slot(e.val, NextStuffId(w, stuff_id))))

\* One pass of the inner loop of _encode_wire, for the copy fid of fmt.
EncodeSlot(w, stuff_, fmt, fid, stuff_id) ==
    With(StuffLookup(w, stuff_, fmt, stuff_id), LAMBDA field_data :
    IF ~field_data.some
    THEN Raise("CodecError", InsufficientParameters,
               IF w.kv_fmt THEN fmt.name.v ELSE fid)
    ELSE IF fmt.field_type = TYPE_EMPTY THEN Slot(<<>>, stuff_id)
    ELSE IF fmt.prefix = PREFIX_REQUIRED /\ field_data.v = PyNone
    THEN Raise("CodecError", RequiredNone, fid)
    ELSE IF field_data.v = PyNone THEN Slot(<<>>, NextStuffId(w, stuff_id))
    ELSE With(EncodeData(w, fmt, fid, field_data.v), LAMBDA e :
         IF ~e.ok THEN e ELSE Slot(e.val, NextStuffId(w, stuff_id))))

\* The two loops of _encode_wire, from the copy c (counted from 0) of the
\* descriptor i.
RECURSIVE EncodeLoop(_, _, _, _, _, _, _)
EncodeLoop(w, stuff_, fmtable, i, c, stuff_id, out) ==
    IF i > Len(fmtable) THEN Ok(out)
    ELSE IF c >= Repeat(fmtable[i])
    THEN EncodeLoop(w, stuff_, fmtable, i + 1, 0, stuff_id, out)
    ELSE With(EncodeSlot(w, stuff_, fmtable[i], fmtable[i].field_id + c,
                         stuff_id),
              LAMBDA e :
         IF ~e.ok THEN e
         ELSE With(out \o e.val, LAMBDA encoded1 :
              EncodeLoop(w, stuff_, fmtable, i, c + 1, e.stuff_id, encoded1)))

\* Wire._encode_wire(stuff_, fmtable): fmtable is None at the top level.
_encode_wire(w, stuff_, fmtable) ==
    EncodeLoop(w, stuff_, IF ~fmtable.some THEN w.fmt ELSE fmtable.v,
               1, 0, 0, <<>>)

\* Wire.encode(*stuff_): the positional values, or the one dict.
encode(w, stuff_) == _encode_wire(w, stuff_, Nothing)

-----------------------------------------------------------------------------
(* Wire: the schema-driven decoder *)

\* The same with the groups keyed by the rank of their field number among the
\* numbers present (1 for the lowest) instead of the number.
_group_fields_by_number_Ranked(decoded_raw) ==
    LET ids == { decoded_raw[j].id : j \in 1..Len(decoded_raw) }
        nth(k) == CHOOSE n \in ids : Cardinality({ l \in ids : l <= n }) = k
    IN  [k \in 1..Cardinality(ids) |->
            SelectSeq(decoded_raw, LAMBDA r : r.id = nth(k))]

\* _group_fields_by_number: the records of each field number, in wire order.
\* index.get(n) is None for a number outside the domain.
_group_fields_by_number(decoded_raw) ==
    [n \in { decoded_raw[j].id : j \in 1..Len(decoded_raw) } |->
        SelectSeq(decoded_raw, LAMBDA r : r.id = n)]

\* The loop of _concat_fields over the fields from the j-th on: each is
\* asserted to have the id and wire type of the first, and its data is
\* written to a BytesIO, which takes bytes only.
RECURSIVE ConcatLoop(_, _, _)
ConcatLoop(flds, j, acc) ==
    IF j > Len(flds) THEN Ok(acc)
    ELSE IF flds[j].id # flds[1].id \/ flds[j].wire_type # flds[1].wire_type
    THEN Raise("AssertionError", "field id or wire_type mismatch", j)
    ELSE IF flds[j].data.k # "bytes"
    THEN Raise("TypeError", "a bytes-like object is required", j)
    ELSE With(acc \o flds[j].data.y, LAMBDA acc1 : ConcatLoop(flds, j + 1, acc1))

\* The same with the data of the last field only.
_concat_fields_LastOnly(flds) ==
    With(ConcatLoop(flds, 1, <<>>), LAMBDA r :
        IF ~r.ok THEN r
        ELSE Ok([id |-> flds[1].id, wire_type |-> flds[1].wire_type,
                 data |-> flds[Len(flds)].data]))

_concat_fields(flds) ==
    With(ConcatLoop(flds, 1, <<>>), LAMBDA r :
        IF ~r.ok THEN r
        ELSE Ok([id |-> flds[1].id, wire_type |-> flds[1].wire_type,
                 data |-> PyBytes(r.val)]))

RequiredEmpty == "Field is required but is empty"
PackedNotStr == "Packed repeated field has wire type other than str"
\* 'Wire type mismatch (expect {0} but got {1})': the two numbers are what the
\* exception is raised at.
WireTypeMismatch == "Wire type mismatch"

\* dict(pairs): a later pair of the same name replaces an earlier one.
DictOf(pairs) ==
    PyDict([n \in { pairs[j].name.v : j \in 1..Len(pairs) } |->
               LET last == CHOOSE j \in 1..Len(pairs) :
                              /\ pairs[j].name.v = n
                              /\ \A l \in (j + 1)..Len(pairs) : pairs[l].name.v # n
               IN  pairs[last].value])

\* tuple(values)
TupleOf(pairs) == PyTuple([j \in 1..Len(pairs) |-> pairs[j].value])

RECURSIVE _decode_wire(_, _, _)

\* The same with the mismatch reported as a CodecError.
_decode_field_AsCodecError(w, field_type, field_data, subcontent) ==
    IF _TYPE_TO_WIRE_TYPE_MAP(field_type).v # field_data.wire_type
    THEN Raise("CodecError", WireTypeMismatch,
               [expect |-> _TYPE_TO_WIRE_TYPE_MAP(field_type).v,
                got |-> field_data.wire_type])
    ELSE IF field_type = TYPE_BYTES /\ Truthy(subcontent)
    THEN With(_decode_wire(w, field_data.data.y, subcontent), LAMBDA r :
         IF ~r.ok THEN r
         ELSE Ok(IF w.kv_fmt THEN DictOf(r.val) ELSE TupleOf(r.val)))
    ELSE _decode_scalar_from_bytes(field_type, field_data.data, w.max_bits,
                                   w.mask)

\* Wire._decode_field: field_data is a record of the raw breakdown.
_decode_field(w, field_type, field_data, subcontent) ==
    IF _TYPE_TO_WIRE_TYPE_MAP(field_type).v # field_data.wire_type
    THEN Raise("TypeError", WireTypeMismatch,
               [expect |-> _TYPE_TO_WIRE_TYPE_MAP(field_type).v,
                got |-> field_data.wire_type])
    ELSE IF field_type = TYPE_BYTES /\ Truthy(subcontent)
    THEN With(_decode_wire(w, field_data.data.y, subcontent), LAMBDA r :
         IF ~r.ok THEN r
         ELSE Ok(IF w.kv_fmt THEN DictOf(r.val) ELSE TupleOf(r.val)))
    ELSE _decode_scalar_from_bytes(field_type, field_data.data, w.max_bits,
                                   w.mask)

\* tuple(self._decode_field(field_type, f, subcontent) for f in fields)
RECURSIVE DecodeEach(_, _, _, _)
DecodeEach(w, fmt, flds, acc) ==
    IF flds = <<>> THEN Ok(PyTuple(acc))
    ELSE With(_decode_field(w, fmt.field_type, Head(flds), fmt.subcontent),
              LAMBDA d :
         IF ~d.ok THEN d
         ELSE With(Append(acc, d.val), LAMBDA acc1 :
              DecodeEach(w, fmt, Tail(flds), acc1)))

\* The same over the headerless breakdown of a packed payload b, which is a
\* generator: each element is decoded as it is yielded.
RECURSIVE UnpackEach(_, _, _, _, _)
UnpackEach(w, fmt, fid, b, acc) ==
    With(YieldIter(b, FALSE, _TYPE_TO_WIRE_TYPE_MAP(fmt.field_type),
                   Some(fid)),
         LAMBDA it :
        CASE it.kind = "break" -> Ok(PyTuple(acc))
          [] it.kind = "raise" -> Raise("CodecError", UnexpectedEOM, fid)
          [] it.kind = "continue" -> Raise("Diverges", "no wire decoder", fid)
          [] it.kind = "yield" ->
                With(_decode_field(w, fmt.field_type, it.field,
                                   fmt.subcontent),
                     LAMBDA d :
                    IF ~d.ok THEN d
                    ELSE With(Append(acc, d.val), LAMBDA acc1 :
                         UnpackEach(w, fmt, fid, it.buf, acc1))))

\* The same branch with the first record taken alone.
DecodePacked_FirstOnly(w, fmt, fid, flds) ==
    IF flds[1].wire_type # _WIRE_TYPE_LEN
    THEN Raise("CodecError", PackedNotStr,
               IF w.kv_fmt THEN fmt.name.v ELSE fid)
    ELSE UnpackEach(w, fmt, fid, flds[1].data.y, <<>>)

\* The packed repeated branch of _decode_wire.
DecodePacked(w, fmt, fid, flds) ==
    With(IF Len(flds) > 1 THEN _concat_fields(flds) ELSE Ok(flds[1]),
         LAMBDA f :
        IF ~f.ok THEN f
        ELSE IF f.val.wire_type # _WIRE_TYPE_LEN
        THEN Raise("CodecError", PackedNotStr,
                   IF w.kv_fmt THEN fmt.name.v ELSE fid)
        ELSE UnpackEach(w, fmt, fid, f.val.data.y, <<>>))

\* The same with the first record taken for a field without a subschema.
DecodeMultiple_FirstRecord(w, fmt, flds) ==
    IF ~fmt.subcontent.some
    THEN _decode_field(w, fmt.field_type, flds[1], fmt.subcontent)
    ELSE With(_concat_fields(flds), LAMBDA f :
         IF ~f.ok THEN f
         ELSE _decode_field(w, fmt.field_type, f.val, fmt.subcontent))

\* Several records of a field that is not repeated: the last one, or for a
\* nested message all of them concatenated.
DecodeMultiple(w, fmt, flds) ==
    IF ~fmt.subcontent.some
    THEN _decode_field(w, fmt.field_type, flds[Len(flds)], fmt.subcontent)
    ELSE With(_concat_fields(flds), LAMBDA f :
         IF ~f.ok THEN f
         ELSE _decode_field(w, fmt.field_type, f.val, fmt.subcontent))

\* One pass of the inner loop of _decode_wire past the skip test: the value
\* decoded for the copy fid of fmt.
DecodeSlot(w, index, fmt, fid) ==
    IF fid \notin DOMAIN index
    THEN IF fmt.prefix = PREFIX_REQUIRED
         THEN Raise("CodecError", RequiredEmpty, fid)
         ELSE Ok(PyNone)
    ELSE IF fmt.prefix = PREFIX_REPEATED
    THEN DecodeEach(w, fmt, index[fid], <<>>)
    ELSE IF fmt.prefix = PREFIX_REPEATED_PACKED
    THEN DecodePacked(w, fmt, fid, index[fid])
    ELSE IF Len(index[fid]) > 1
    THEN DecodeMultiple(w, fmt, index[fid])
    ELSE _decode_field(w, fmt.field_type, index[fid][1], fmt.subcontent)

\* The two loops of _decode_wire, from the copy c (counted from 0) of the
\* descriptor i; acc holds what was yielded.
RECURSIVE DecodeLoop(_, _, _, _, _, _)
DecodeLoop(w, index, subfmt, i, c, acc) ==
    IF i > Len(subfmt) THEN Ok(acc)
    ELSE IF c >= Repeat(subfmt[i])
    THEN DecodeLoop(w, index, subfmt, i + 1, 0, acc)
    ELSE IF subfmt[i].field_type = TYPE_EMPTY
    THEN DecodeLoop(w, index, subfmt, i, c + 1, acc)
    ELSE With(DecodeSlot(w, index, subfmt[i], subfmt[i].field_id + c),
              LAMBDA d :
         IF ~d.ok THEN d
         ELSE With(Append(acc, [name |-> subfmt[i].name, value |-> d.val]),
                   LAMBDA acc1 :
              DecodeLoop(w, index, subfmt, i, c + 1, acc1)))

\* The same for a reader that takes the fields in ascending order of their
\* numbers: it stops at the first record with a number below the one before.
_decode_wire_AscendingOnly(w, b, subfmt) ==
    With(_yield_fields_from_wire(b, Nothing, Nothing), LAMBDA raw :
        IF ~raw.ok THEN raw
        ELSE LET ascending(k) ==
                     \A j \in 1..(k - 1) : raw.val[j].id <= raw.val[j + 1].id
                 n == CHOOSE k \in 0..Len(raw.val) :
                          /\ ascending(k)
                          /\ \A l \in (k + 1)..Len(raw.val) : ~ascending(l)
             IN  With(_group_fields_by_number(SubSeq(raw.val, 1, n)),
                      LAMBDA index :
                      DecodeLoop(w, index,
                                 IF ~Truthy(subfmt) THEN w.fmt ELSE subfmt.v,
                                 1, 0, <<>>)))

\* Wire._decode_wire(buf, subfmt), drained: what it yields, or the exception.
_decode_wire(w, b, subfmt) ==
    With(_yield_fields_from_wire(b, Nothing, Nothing), LAMBDA raw :
        IF ~raw.ok THEN raw
        ELSE With(_group_fields_by_number(raw.val), LAMBDA index :
             DecodeLoop(w, index, IF ~Truthy(subfmt) THEN w.fmt ELSE subfmt.v,
                        1, 0, <<>>)))

\* Wire.decode(data)
decode(w, d) ==
    With(_decode_wire(w, d, Nothing), LAMBDA r :
        IF ~r.ok THEN r
        ELSE Ok(IF w.kv_fmt THEN DictOf(r.val) ELSE TupleOf(r.val)))

-----------------------------------------------------------------------------
(* Encoding sampled values and decoding sampled wires under sampled schemas *)

MaxElems == 2

\* A scalar token without repeat count and seek.
Tok(prefix, char) == Scalar(prefix, char, Nothing, Nothing)
\* A nested group without seek.
Grp(prefix, inner) == Group(prefix, inner, Nothing)

\* Values of each scalar type: the ends and the middle of its domain, and for
\* T and f one value outside of it (-1, and the double nearest 0.1, which is
\* no single); for t the values next to both ends of its domain and one
\* beyond 2^bits.  At the widths up to 8 a t takes every value of its domain.
ScalarSamples(field_type, bits) ==
    CASE field_type = "t" ->
            { PyInt((0 - (2 ^ (bits - 1))) - 1), PyInt((2 ^ bits) + 1) } \cup
            (IF bits <= 8
             THEN { PyInt(n) : n \in (0 - (2 ^ (bits - 1)))..(2 ^ (bits - 1)) }
             ELSE { PyInt(0 - (2 ^ (bits - 1))), PyInt(-1), PyInt(0),
                    PyInt((2 ^ (bits - 1)) - 1), PyInt(2 ^ (bits - 1)) })
      [] field_type = "T" -> { PyInt(0), PyInt(1), PyInt(300), PyInt(-1) }
      [] field_type = "z" ->
            { PyInt(-65), PyInt(-1), PyInt(0), PyInt(1), PyInt(64) }
      [] field_type = "b" -> { PyBool(TRUE), PyBool(FALSE) }
      [] field_type = "i" ->
            { PyInt(-2147483647), PyInt(-2), PyInt(0), PyInt(2147483647) }
      [] field_type = "I" -> { PyInt(0), PyInt(258), PyInt(2147483647) }
      [] field_type = "q" ->
            { PyInt(-2147483647), PyInt(-300), PyInt(0), PyInt(2147483647) }
      [] field_type = "Q" -> { PyInt(0), PyInt(258), PyInt(2147483647) }
      [] field_type = "f" ->
            { PyFloat(0, 0, 0, 0), PyFloat(0, 1023, 0, 0),
              PyFloat(1, 1024, 2097152, 0), PyFloat(0, 1019, 5033165, 0),
              PyFloat(0, 1019, 5033164, 429496730) }
      [] field_type = "d" ->
            { PyFloat(0, 0, 0, 0), PyFloat(0, 1023, 0, 0),
              PyFloat(1, 1024, 2097152, 0),
              PyFloat(0, 1019, 5033164, 429496730) }
      [] field_type = "a" ->
            { PyBytes(<<>>), PyBytes(<<116, 101>>), PyBytes(<<255, 0, 128>>) }
      [] field_type = "U" ->
            { PyStr(<<>>), PyStr(<<116, 101>>), PyStr(<<233, 8364, 128512>>) }

\* The domain of a scalar type: [-2^(bits-1), 2^(bits-1)) for t, the
\* non-negative integers for T (and the unsigned I and Q), the singles for f.
InDomain(field_type, v, bits) ==
    CASE field_type = "t" ->
            v.i >= 0 - (2 ^ (bits - 1)) /\ v.i < 2 ^ (bits - 1)
      [] field_type \in {"T", "I", "Q"} -> v.i >= 0
      [] field_type = "f" -> v.lo = 0
      [] OTHER -> TRUE

\* The sequences <<x1, ..., xn>> with xi in sets[i].
RECURSIVE Product(_)
Product(sets) ==
    IF sets = <<>> THEN {<<>>}
    ELSE { <<h>> \o t : h \in Head(sets), t \in Product(Tail(sets)) }

\* The slots of a descriptor list that take a value: the copies of its
\* descriptors that are no skip slots, in order.
RECURSIVE ValueSlots(_)
ValueSlots(fmtable) ==
    IF fmtable = <<>> THEN <<>>
    ELSE (IF Head(fmtable).field_type = TYPE_EMPTY THEN <<>>
          ELSE [c \in 1..Repeat(Head(fmtable)) |->
                   [fmt |-> Head(fmtable),
                    fid |-> Head(fmtable).field_id + c - 1]])
         \o ValueSlots(Tail(fmtable))

RECURSIVE StuffSamples(_, _, _)

\* The values handed in for one descriptor: None, a sampled value, or for a
\* repeated or packed repeated field a sequence of up to MaxElems of them.
SlotSamples(fmt, kv_fmt, bits) ==
    LET base == IF Truthy(fmt.subcontent)
                THEN StuffSamples(fmt.subcontent.v, kv_fmt, bits)
                ELSE ScalarSamples(fmt.field_type, bits)
    IN  {PyNone} \cup
        (IF fmt.prefix \in {PREFIX_REPEATED, PREFIX_REPEATED_PACKED}
         THEN { PyTuple(q) : q \in SeqsUpTo(base, MaxElems) }
         ELSE base)

\* A mapping without the keys whose value is the mark "absent".
DictWithout(names, vals) ==
    PyDict([n \in { names[j] : j \in { l \in 1..Len(names) :
                                          vals[l] # [k |-> "absent"] } } |->
               vals[CHOOSE j \in 1..Len(names) : names[j] = n]])

\* The values handed to encode for a descriptor list.  Positional: a tuple of
\* one value for each of the first m value slots, for every m.  Key-value: a
\* mapping with, for every name, a value or no key; a skip slot takes None.
StuffSamples(fmtable, kv_fmt, bits) ==
    IF kv_fmt
    THEN { DictWithout([j \in 1..Len(fmtable) |-> fmtable[j].name.v], vals) :
             vals \in Product([j \in 1..Len(fmtable) |->
                         {[k |-> "absent"]} \cup
                         (IF fmtable[j].field_type = TYPE_EMPTY THEN {PyNone}
                          ELSE SlotSamples(fmtable[j], kv_fmt, bits))]) }
    ELSE LET slots == ValueSlots(fmtable)
         IN  UNION { { PyTuple(vals) :
                         vals \in Product([j \in 1..m |->
                                     SlotSamples(slots[j].fmt, kv_fmt, bits)]) } :
                     m \in 0..Len(slots) }

\* The schemas: one field of each scalar type; required, skip, repeated,
\* packed repeated and nested fields among others.
FmtStrSchemas ==
    { <<Tok("", c)>> : c \in {"t", "T", "z", "b", "i", "I", "q", "Q", "f",
                              "d", "a", "U"} }
    \cup { <<Tok("*", "U")>>, <<Tok("", "U"), Tok("*", "T")>>,
           <<Tok("", "U"), Tok("", "T")>>,
           <<Scalar("", "V", Some(2), Nothing)>>,
           <<Tok("", "x"), Tok("", "U")>>, <<Tok("", "U"), Tok("", "x")>>,
           <<Tok("", "U"), Tok("", "x"), Tok("", "b")>>,
           <<Scalar("", "x", Some(3), Nothing), Tok("#", "V")>>,
           <<Tok("*", "x"), Tok("", "b")>>,
           <<Grp("*", <<Tok("*", "U"), Tok("", "x")>>)>>,
           <<Tok("#", "T")>>, <<Tok("#", "z")>>, <<Tok("#", "i")>>,
           <<Tok("#", "U")>>, <<Tok("+", "T")>>,
           <<Tok("", "b"), Tok("#", "T")>>,
           <<Grp("", <<Tok("", "U"), Tok("+", "T")>>)>>,
           <<Tok("", "b"), Tok("+", "U")>>,
           <<Grp("+", <<Tok("", "U")>>)>> }

KvFmtSchemas ==
    { <<Tok("", c)>> : c \in {"t", "f", "U"} }
    \cup { <<Tok("", "U"), Tok("", "b")>>, <<Tok("*", "U"), Tok("", "b")>>,
           <<Tok("", "x"), Tok("", "U")>>,
           <<Tok("", "U"), Scalar("", "x", Some(2), Nothing)>>,
           <<Tok("", "b"), Grp("", <<Tok("", "U"), Tok("*", "b")>>)>>,
           <<Tok("#", "T")>>,
           <<Grp("", <<Tok("", "U"), Tok("+", "T")>>)>>,
           <<Tok("+", "T")>> }

\* The widths vint_2sc_max_bits is set to.
WidthSamples == {7, 8, 30}

\* The records the wires handed to decode are made of.  The last three hold
\* messages of a string at 1 and varints at 2: ('t', 1), (2) and ('u').
CodecRecords ==
    { [id |-> 1, wire_type |-> 0, data |-> PyInt(3)],
      [id |-> 1, wire_type |-> 2, data |-> PyBytes(<<3>>)],
      [id |-> 1, wire_type |-> 2, data |-> PyBytes(<<142, 2, 1>>)],
      [id |-> 1, wire_type |-> 2, data |-> PyBytes(<<>>)],
      [id |-> 1, wire_type |-> 2, data |-> PyBytes(<<142>>)],
      [id |-> 2, wire_type |-> 2, data |-> PyBytes(<<116>>)],
      [id |-> 2, wire_type |-> 0, data |-> PyInt(1)],
      [id |-> 1, wire_type |-> 2, data |-> PyBytes(<<10, 1, 116, 16, 1>>)],
      [id |-> 1, wire_type |-> 2, data |-> PyBytes(<<16, 2>>)],
      [id |-> 1, wire_type |-> 2, data |-> PyBytes(<<10, 1, 117>>)] }

\* A Wire is made of a schema text, and either a value is handed to encode
\* or a wire to decode.
CodecInit ==
    /\ \E kv_fmt \in BOOLEAN :
          /\ tokens \in (IF kv_fmt THEN KvFmtSchemas ELSE FmtStrSchemas)
          /\ fmtstr = (IF kv_fmt THEN WriteKvFmt(tokens)
                       ELSE WriteFmtStr(tokens))
          /\ \E bits \in WidthSamples, sparse \in BOOLEAN :
                /\ sparse => kv_fmt
                /\ bits # 8 => tokens = <<Tok("", "t")>>
                /\ wire = Some(WireInit(fmtstr, kv_fmt, bits, sparse))
    /\ \/ /\ pc = "encode"
          /\ stuff \in StuffSamples(wire.v.fmt, wire.v.kv_fmt, wire.v.max_bits)
          /\ data = <<>>
          /\ msg = <<>>
       \/ /\ pc = "decode"
          /\ stuff = PyNone
          /\ msg \in SeqsUpTo(CodecRecords, MaxRecords)
          /\ data = MsgBytes(msg)
    /\ encoded = Nothing
    /\ decoded = Nothing
    /\ exc = Nothing
    /\ buf = <<>> /\ wire_type = Nothing /\ field_number = Nothing
    /\ fields = <<>>
    /\ ptr = 0 /\ field_id = 0 /\ parsed_list = <<>>
    /\ parser_used_fields = Nothing

\* Wire.encode returns the bytes, which are then handed to decode.
EncodeOk ==
    /\ pc = "encode"
    /\ \E r \in {encode(wire.v, stuff)} :
          /\ r.ok
          /\ encoded' = Some(r.val)
          /\ data' = r.val
    /\ pc' = "decode"
    /\ UNCHANGED <<wire, stuff, decoded, exc, buf, wire_type, field_number,
                   fields, msg, parseVars>>

\* Wire.encode raises.
EncodeRaise ==
    /\ pc = "encode"
    /\ \E r \in {encode(wire.v, stuff)} :
          /\ ~r.ok
          /\ exc' = r
    /\ pc' = "encode_raised"
    /\ UNCHANGED <<codecVars, rawVars, parseVars>>

\* Wire.decode returns the value.
DecodeOk ==
    /\ pc = "decode"
    /\ \E r \in {decode(wire.v, data)} :
          /\ r.ok
          /\ decoded' = Some(r.val)
    /\ pc' = "done"
    /\ UNCHANGED <<wire, stuff, encoded, exc, rawVars, parseVars>>

\* Wire.decode raises.
DecodeRaise ==
    /\ pc = "decode"
    /\ \E r \in {decode(wire.v, data)} :
          /\ ~r.ok
          /\ exc' = r
    /\ pc' = "decode_raised"
    /\ UNCHANGED <<codecVars, rawVars, parseVars>>

CodecNext == EncodeOk \/ EncodeRaise \/ DecodeOk \/ DecodeRaise

SpecCodec == CodecInit /\ [][CodecNext]_vars

-----------------------------------------------------------------------------
(* What the claims about encode and decode speak of *)

\* A value was handed to encode (and not a wire to decode).
EncodePath == stuff # PyNone
Encoded == pc \in {"decode", "done", "decode_raised"} /\ encoded.some

\* The value slots of the schema.
Slots == ValueSlots(wire.v.fmt)

\* The j-th value slot is handed a value: the j-th of the tuple, or the one
\* at the name of the slot.
IsSupplied(j) ==
    IF wire.v.kv_fmt THEN Slots[j].fmt.name.v \in DOMAIN stuff.d
    ELSE j <= Len(stuff.t)
Supplied(j) ==
    IF wire.v.kv_fmt THEN stuff.d[Slots[j].fmt.name.v] ELSE stuff.t[j]

\* What decode returned for the j-th value slot.
DecodedAt(j) ==
    IF wire.v.kv_fmt THEN decoded.v.d[Slots[j].fmt.name.v] ELSE decoded.v.t[j]

\* The field numbers of the records of a wire.
RawIds(b) == { decode_raw(b).val[j].id : j \in 1..Len(decode_raw(b).val) }

\* The schema has one field, a scalar without prefix, and encode is handed a
\* value of the domain of its type for it.
C1_Case ==
    /\ EncodePath
    /\ Len(wire.v.fmt) = 1
    /\ Len(Slots) = 1
    /\ wire.v.fmt[1].prefix = ""
    /\ ~wire.v.fmt[1].subcontent.some
    /\ IsSupplied(1)
    /\ Supplied(1) # PyNone
    /\ InDomain(wire.v.fmt[1].field_type, Supplied(1), wire.v.max_bits)

\* C1: round trip of a scalar: for every scalar type code and every value v
\* of the domain of the type, encode with a one-field schema does not fail,
\* and decode with the same schema of the bytes it produced returns v.
C1_RoundTripScalar ==
    C1_Case =>
        /\ pc \notin {"encode_raised", "decode_raised"}
        /\ pc = "done" => decoded = Some(stuff)

\* C1's case: a negative t has made the round trip at the width 7.
C1_Witness ==
    /\ C1_Case
    /\ pc = "done"
    /\ wire.v.fmt[1].field_type = "t"
    /\ wire.v.max_bits = 7
    /\ Supplied(1) = PyInt(-64)
    /\ DecodedAt(1) = PyInt(-64)

-----------------------------------------------------------------------------
(* The passes of the encoder and the decoder over the schema *)

\* Every pass of the inner loops over a descriptor list: the descriptor, the
\* field number of the copy, and the number of positional values consumed
\* before the pass.
RECURSIVE PassesFrom(_, _)
PassesFrom(fmtable, consumed) ==
    IF fmtable = <<>> THEN <<>>
    ELSE LET f == Head(fmtable)
             skip == f.field_type = TYPE_EMPTY
         IN  [c \in 1..Repeat(f) |->
                 [fmt |-> f, fid |-> f.field_id + c - 1,
                  stuff_id |-> IF skip THEN consumed ELSE consumed + c - 1]]
             \o PassesFrom(Tail(fmtable),
                           IF skip THEN consumed ELSE consumed + Repeat(f))

Passes == PassesFrom(wire.v.fmt, 0)

IsSkip(p) == Passes[p].fmt.field_type = TYPE_EMPTY
IsRequired(p) == Passes[p].fmt.prefix = PREFIX_REQUIRED

\* What the encoder reads for the pass p: the value, or Nothing.
Given(p) == StuffLookup(wire.v, stuff, Passes[p].fmt, Passes[p].stuff_id)

\* The value v can be written for a field: None for a field that is not
\* required, or a value that encodes.
ValueFits(fmt, fid, v) ==
    IF v = PyNone THEN fmt.prefix # PREFIX_REQUIRED
    ELSE EncodeData(wire.v, fmt, fid, v).ok

\* The encoder gets past the pass p.
Passable(p) ==
    /\ Given(p).some
    /\ IsSkip(p) \/ ValueFits(Passes[p].fmt, Passes[p].fid, Given(p).v)

\* What decode returned for the pass p, which is no skip.
DecodedFor(p) ==
    IF wire.v.kv_fmt THEN decoded.v.d[Passes[p].fmt.name.v]
    ELSE decoded.v.t[Passes[p].stuff_id + 1]

\* The records of the wire handed to decode, by field number.
Index == _group_fields_by_number(decode_raw(data).val)

-----------------------------------------------------------------------------
(* C4 *)

\* C4: a required field (a descriptor with prefix '*' that is no skip slot)
\* is mandatory in both directions.  Encode: when the value read for it is
\* None, encode raises, and when every pass before it gets through, what it
\* raises is CodecError 'Required field cannot be None.' for that field; for
\* a field that is not required the wire holds no record of its number.
\* Decode: when the wire holds no record with the number of a required field,
\* decode raises, and when every field before it decodes, what it raises is
\* CodecError 'Field is required but is empty' for that field; a field that
\* is not required decodes to None.
C4_RequiredMandatory ==
    \A p \in 1..Len(Passes) : ~IsSkip(p) =>
        /\ (EncodePath /\ pc # "encode" /\ Given(p) = Some(PyNone)) =>
              IF IsRequired(p)
              THEN /\ pc = "encode_raised"
                   /\ (\A q \in 1..(p - 1) : Passable(q)) =>
                         exc = Raise("CodecError", RequiredNone, Passes[p].fid)
              ELSE Encoded => Passes[p].fid \notin RawIds(encoded.v)
        /\ (/\ pc \in {"done", "decode_raised"}
            /\ decode_raw(data).ok
            /\ Passes[p].fid \notin RawIds(data)) =>
              IF IsRequired(p)
              THEN /\ pc = "decode_raised"
                   /\ (\A q \in 1..(p - 1) : ~IsSkip(q) =>
                          DecodeSlot(wire.v, Index, Passes[q].fmt,
                                     Passes[q].fid).ok) =>
                         exc = Raise("CodecError", RequiredEmpty,
                                     Passes[p].fid)
              ELSE pc = "done" => DecodedFor(p) = PyNone

\* C4's case: encode was handed None for a required field that is not the
\* first of its schema, and raised for it.
C4_Witness ==
    /\ EncodePath
    /\ pc = "encode_raised"
    /\ \E p \in 2..Len(Passes) :
          /\ ~IsSkip(p) /\ IsRequired(p)
          /\ Given(p) = Some(PyNone)
          /\ Given(p - 1).some /\ Given(p - 1).v # PyNone
          /\ exc = Raise("CodecError", RequiredNone, Passes[p].fid)

-----------------------------------------------------------------------------
(* C5 *)

\* C5: encode fails with CodecError 'Insufficient parameters (empty field
\* ... not padded with None)'.  Positional: when the tuple holds fewer
\* values than the schema has value slots (and every value it holds can be
\* written), the error names the field number of the first value slot left
\* without a value.  Key-value without allow_sparse_dict: when the mapping
\* lacks the key of a field (and every earlier pass gets through), the error
\* names that field.
C5_InsufficientParameters ==
    (EncodePath /\ pc # "encode") =>
        IF wire.v.kv_fmt
        THEN ~wire.v.allow_sparse_dict =>
                \A p \in 1..Len(Passes) :
                    (~Given(p).some /\ \A q \in 1..(p - 1) : Passable(q)) =>
                        /\ pc = "encode_raised"
                        /\ exc = Raise("CodecError", InsufficientParameters,
                                       Passes[p].fmt.name.v)
        ELSE (/\ Len(stuff.t) < Len(Slots)
              /\ \A j \in 1..Len(stuff.t) :
                    ValueFits(Slots[j].fmt, Slots[j].fid, stuff.t[j])) =>
                /\ pc = "encode_raised"
                /\ exc = Raise("CodecError", InsufficientParameters,
                               Slots[Len(stuff.t) + 1].fid)

-----------------------------------------------------------------------------
(* C7 *)

\* C7: skip slots do no I/O.  A positional schema handed exactly one value
\* for each value slot (each value one that can be written) encodes without
\* an exception, wherever its skip slots sit, and the wire holds no record
\* with the number of a skip slot; what decode returns has no element for a
\* skip slot.
C7_SkipNoIO ==
    /\ (/\ EncodePath /\ ~wire.v.kv_fmt /\ pc # "encode"
        /\ Len(stuff.t) = Len(Slots)
        /\ \A j \in 1..Len(Slots) :
              ValueFits(Slots[j].fmt, Slots[j].fid, stuff.t[j])) =>
          /\ pc # "encode_raised"
          /\ Encoded => \A p \in 1..Len(Passes) :
                            IsSkip(p) => Passes[p].fid \notin RawIds(encoded.v)
    /\ pc = "done" =>
          IF wire.v.kv_fmt
          THEN \A p \in 1..Len(Passes) :
                  IsSkip(p) => Passes[p].fmt.name.v \notin DOMAIN decoded.v.d
          ELSE Len(decoded.v.t) = Len(Slots)

-----------------------------------------------------------------------------
(* C6 *)

\* The mapping with every key of the schema it lacks set to None, at the top
\* level and inside the nested mappings.
RECURSIVE FillNulls(_, _)
FillNulls(fmtable, given) ==
    PyDict([n \in { fmtable[j].name.v : j \in 1..Len(fmtable) } |->
        LET f == fmtable[CHOOSE j \in 1..Len(fmtable) : fmtable[j].name.v = n]
        IN  IF n \notin DOMAIN given.d THEN PyNone
            ELSE IF ~Truthy(f.subcontent) \/ given.d[n] = PyNone
            THEN given.d[n]
            ELSE IF f.prefix \in {PREFIX_REPEATED, PREFIX_REPEATED_PACKED}
            THEN PyTuple([i \in 1..Len(given.d[n].t) |->
                             FillNulls(f.subcontent.v, given.d[n].t[i])])
            ELSE FillNulls(f.subcontent.v, given.d[n])])

\* The decoded mapping got holds None at the name of every field the mapping
\* given lacks, at the top level and inside the nested mappings.
RECURSIVE NullsFor(_, _, _)
NullsFor(fmtable, given, got) ==
    \A j \in 1..Len(fmtable) :
        LET f == fmtable[j]
            n == f.name.v
        IN  f.field_type # TYPE_EMPTY =>
              IF n \notin DOMAIN given.d
              THEN n \in DOMAIN got.d /\ got.d[n] = PyNone
              ELSE (/\ Truthy(f.subcontent) /\ f.prefix \in {"", PREFIX_REQUIRED}
                    /\ given.d[n] # PyNone) =>
                      NullsFor(f.subcontent.v, given.d[n], got.d[n])

\* A mapping that lacks a key is handed to the encoder of a key-value schema
\* with allow_sparse_dict.
C6_Case ==
    /\ EncodePath
    /\ wire.v.kv_fmt /\ wire.v.allow_sparse_dict
    /\ FillNulls(wire.v.fmt, stuff) # stuff

\* C6: with allow_sparse_dict a key missing from the mapping, at the top
\* level or in a nested mapping, is treated as the key set to None: encode
\* returns the bytes, or raises the exception, that it does for the mapping
\* with the missing keys set to None; the wire holds no record for a field
\* (no skip slot) whose key is missing; and the mapping decode returns for
\* those bytes holds None at the name of that field.
C6_SparseIsNull ==
    (C6_Case /\ pc # "encode") =>
        /\ \E r \in {encode(wire.v, FillNulls(wire.v.fmt, stuff))} :
              IF r.ok THEN Encoded /\ encoded.v = r.val
              ELSE pc = "encode_raised" /\ exc = r
        /\ Encoded =>
              \A p \in 1..Len(Passes) :
                  (~IsSkip(p) /\ Passes[p].fmt.name.v \notin DOMAIN stuff.d) =>
                      Passes[p].fid \notin RawIds(encoded.v)
        /\ pc = "done" => NullsFor(wire.v.fmt, stuff, decoded.v)

\* C6's case: a mapping that lacks a key at the top level and a key inside a
\* nested mapping was encoded and decoded.
C6_Witness ==
    /\ C6_Case
    /\ pc = "done"
    /\ \E j \in 1..Len(wire.v.fmt) :
          /\ wire.v.fmt[j].name.v \notin DOMAIN stuff.d
          /\ decoded.v.d[wire.v.fmt[j].name.v] = PyNone
    /\ \E j \in 1..Len(wire.v.fmt) :
          LET f == wire.v.fmt[j]
          IN  /\ Truthy(f.subcontent)
              /\ f.name.v \in DOMAIN stuff.d
              /\ stuff.d[f.name.v] # PyNone
              /\ \E l \in 1..Len(f.subcontent.v) :
                    LET n == f.subcontent.v[l].name.v
                    IN  /\ n \notin DOMAIN stuff.d[f.name.v].d
                        /\ decoded.v.d[f.name.v].d[n] = PyNone

-----------------------------------------------------------------------------
(* C8 *)

\* The payloads of the elements of a sequence, one after the other.
Payloads(fmt, elems) ==
    Concat([i \in 1..Len(elems) |->
               _encode_scalar_to_bytes(fmt.field_type, elems[i],
                                       wire.v.mask).val])

\* The pass p is of a packed repeated field of scalars, encode was handed a
\* sequence of values of the domain of the type for it, and returned.
C8_Case(p) ==
    /\ EncodePath /\ Encoded
    /\ Passes[p].fmt.prefix = PREFIX_REPEATED_PACKED
    /\ ~IsSkip(p) /\ ~Truthy(Passes[p].fmt.subcontent)
    /\ Given(p).some /\ Given(p).v # PyNone
    /\ \A i \in 1..Len(Given(p).v.t) :
          InDomain(Passes[p].fmt.field_type, Given(p).v.t[i], wire.v.max_bits)

\* C8: a sequence handed in for a packed repeated field is written as one
\* record of the field number with wire type 2 whose payload is the payloads
\* of the elements in order, without headers between them (in a schema of
\* this field alone the bytes are the header, the varint length and that
\* payload; the empty sequence is the header and the length 0), and decode
\* of the bytes returns the elements in the same order.
C8_PackedLayout ==
    \A p \in 1..Len(Passes) : C8_Case(p) =>
        LET fid == Passes[p].fid
            payload == Payloads(Passes[p].fmt, Given(p).v.t)
        IN  /\ decode_raw(encoded.v).ok
            /\ SelectSeq(decode_raw(encoded.v).val, LAMBDA r : r.id = fid)
                 = << [id |-> fid, wire_type |-> 2, data |-> PyBytes(payload)] >>
            /\ Len(Passes) = 1 =>
                 encoded.v = _encode_header(2, fid)
                                \o _encode_vint(Len(payload)) \o payload
            /\ pc # "decode_raised"
            /\ pc = "done" => DecodedFor(p) = Given(p).v

\* C8's case: the sequence (1, 300) made the round trip through a schema of
\* one packed repeated T.
C8_Witness ==
    /\ pc = "done"
    /\ Len(Passes) = 1 /\ C8_Case(1)
    /\ Passes[1].fmt.field_type = "T"
    /\ Given(1).v = PyTuple(<<PyInt(1), PyInt(300)>>)
    /\ encoded.v = <<10, 3, 1, 172, 2>>
    /\ DecodedFor(1) = PyTuple(<<PyInt(1), PyInt(300)>>)

-----------------------------------------------------------------------------
(* C9 *)

\* The records of the wire with the number of the pass p.
RecordsFor(p) == Index[Passes[p].fid]

\* What the payload of the j-th record of the pass p decodes to alone.
Alone(p, j) ==
    UnpackEach(wire.v, Passes[p].fmt, Passes[p].fid, RecordsFor(p)[j].data.y,
               <<>>)

\* The wire holds several records with wire type 2 for the packed repeated
\* field of the pass p, and the payload of each decodes alone.
C9_Case(p) ==
    /\ pc \in {"done", "decode_raised"}
    /\ Passes[p].fmt.prefix = PREFIX_REPEATED_PACKED /\ ~IsSkip(p)
    /\ decode_raw(data).ok
    /\ Passes[p].fid \in DOMAIN Index
    /\ Len(RecordsFor(p)) > 1
    /\ \A j \in 1..Len(RecordsFor(p)) :
          /\ RecordsFor(p)[j].wire_type = _WIRE_TYPE_LEN
          /\ Alone(p, j).ok

\* C9: when the wire holds several length-delimited records for a packed
\* repeated field, each of a payload that decodes alone, the field decodes
\* to the sequences of the records one after the other, in wire order.
C9_PackedConcatenation ==
    \A p \in 1..Len(Passes) : C9_Case(p) =>
        LET whole == PyTuple(Concat([j \in 1..Len(RecordsFor(p)) |->
                                        Alone(p, j).val.t]))
        IN  /\ DecodePacked(wire.v, Passes[p].fmt, Passes[p].fid,
                            RecordsFor(p)) = Ok(whole)
            /\ pc = "done" => DecodedFor(p) = whole

\* C9's case: two records of field 1, of one and of two varints, were decoded
\* as a packed repeated T.
C9_Witness ==
    /\ pc = "done"
    /\ C9_Case(1)
    /\ msg = << [id |-> 1, wire_type |-> 2, data |-> PyBytes(<<3>>)],
                [id |-> 1, wire_type |-> 2, data |-> PyBytes(<<142, 2, 1>>)] >>
    /\ Passes[1].fmt.field_type = "T"
    /\ DecodedFor(1) = PyTuple(<<PyInt(3), PyInt(270), PyInt(1)>>)

-----------------------------------------------------------------------------
(* C11 *)

\* Two descriptor lists describe the same fields: the same field numbers,
\* types, prefixes, copies and nesting, in the same order.
RECURSIVE SameFields(_, _)
SameFields(a, b) ==
    /\ Len(a) = Len(b)
    /\ \A i \in 1..Len(a) :
          /\ a[i].field_id = b[i].field_id
          /\ a[i].field_type = b[i].field_type
          /\ a[i].prefix = b[i].prefix
          /\ Repeat(a[i]) = Repeat(b[i])
          /\ Truthy(a[i].subcontent) = Truthy(b[i].subcontent)
          /\ Truthy(a[i].subcontent) =>
                SameFields(a[i].subcontent.v, b[i].subcontent.v)

\* The mapping that holds, at the name of every field of the key-value
\* descriptor list kvfmt, the value the positional values vals hold for it;
\* with pad, the names of the skip slots are there and hold None.
RECURSIVE ToMapping(_, _, _)
ToMapping(kvfmt, vals, pad) ==
    LET held == { i \in 1..Len(kvfmt) :
                     pad \/ kvfmt[i].field_type # TYPE_EMPTY }
        at(i) == Cardinality({ l \in 1..i : kvfmt[l].field_type # TYPE_EMPTY })
        conv(f, v) ==
            IF ~Truthy(f.subcontent) \/ v = PyNone THEN v
            ELSE IF f.prefix \in {PREFIX_REPEATED, PREFIX_REPEATED_PACKED}
            THEN PyTuple([e \in 1..Len(v.t) |->
                             ToMapping(f.subcontent.v, v.t[e].t, pad)])
            ELSE ToMapping(f.subcontent.v, v.t, pad)
    IN  PyDict([n \in { kvfmt[i].name.v : i \in held } |->
            LET i == CHOOSE l \in held : kvfmt[l].name.v = n
            IN  IF kvfmt[i].field_type = TYPE_EMPTY THEN PyNone
                ELSE conv(kvfmt[i], vals[at(i)])])

\* The Wire of the key-value list written from the tokens of the schema.
KvTwin ==
    WireInit(WriteKvFmt(tokens), TRUE, wire.v.max_bits, FALSE)

\* The schema is a format string whose key-value counterpart describes the
\* same fields.
C11_Twins ==
    /\ ~wire.v.kv_fmt
    /\ _parse_kvfmt(WriteKvFmt(tokens)).ok
    /\ SameFields(wire.v.fmt, KvTwin.fmt)

\* encode was handed one value that can be written for every value slot.
C11_Case ==
    /\ C11_Twins
    /\ EncodePath /\ pc # "encode"
    /\ Len(stuff.t) = Len(Slots)
    /\ \A j \in 1..Len(Slots) :
          ValueFits(Slots[j].fmt, Slots[j].fid, stuff.t[j])

\* C11: when a format string and a key-value list describe the same fields,
\* encoding the positional values and encoding the mapping that holds the
\* same value for each field (with or without the names of the skip slots
\* set to None) give the same bytes, and decoding the same bytes with either
\* schema gives the same value for each field (or fails in both).
C11_DialectEquivalence ==
    /\ C11_Case =>
          \E pad \in BOOLEAN :
          \E r \in {encode(KvTwin, ToMapping(KvTwin.fmt, stuff.t, pad))} :
              /\ Encoded
              /\ r.ok
              /\ r.val = encoded.v
    /\ (C11_Twins /\ pc \in {"done", "decode_raised"}) =>
          \E r \in {decode(KvTwin, data)} :
              IF pc = "done"
              THEN r.ok /\ r.val = ToMapping(KvTwin.fmt, decoded.v.t, FALSE)
              ELSE ~r.ok /\ r.exc = exc.exc /\ r.what = exc.what

-----------------------------------------------------------------------------
(* C12 *)

\* The stream is the whole of what encode_raw writes for records of the wire
\* types 0, 1, 2 and 5 with well-formed payloads.
C12_Case ==
    /\ pc \in {"loop", "done", "raised"}
    /\ \A i \in 1..Len(msg) :
          msg[i].wire_type \in {_WIRE_TYPE_VARINT, _WIRE_TYPE_I64,
                                _WIRE_TYPE_LEN, _WIRE_TYPE_I32}
    /\ encode_raw(msg).ok
    /\ data = encode_raw(msg).val

\* C12: raw round trip.  decode_raw of what encode_raw writes for a sequence
\* of well-formed records returns the same records in the same order, and
\* encode_raw of what decode_raw returns for those bytes writes the same
\* bytes.
C12_RawRoundTrip ==
    C12_Case =>
        /\ pc # "raised"
        /\ pc = "done" =>
              /\ fields = msg
              /\ encode_raw(fields) = Ok(data)

\* C12's case: a fixed 32-bit record and a length-delimited record made the
\* round trip.
C12_Witness ==
    /\ C12_Case
    /\ pc = "done"
    /\ Len(msg) = 2
    /\ msg[1].wire_type = _WIRE_TYPE_I32
    /\ msg[2] = [id |-> 2, wire_type |-> 2, data |-> PyBytes(<<116, 101>>)]
    /\ fields = msg

-----------------------------------------------------------------------------
(* C13 *)

\* The field numbers the schema declares, and the wire handed to decode
\* without the records of the other numbers.
Declared ==
    { FieldNumbers(wire.v.fmt)[j] : j \in 1..Len(FieldNumbers(wire.v.fmt)) }
DeclaredOnly == SelectSeq(msg, LAMBDA r : r.id \in Declared)

\* A wire was handed to decode, decode is over, and the wire holds records of
\* numbers the schema does not declare.
C13_Case ==
    /\ ~EncodePath
    /\ pc \in {"done", "decode_raised"}
    /\ DeclaredOnly # msg

\* C13: records whose field number the schema does not declare are ignored by
\* decode.  Decode of a wire with such records succeeds exactly when decode
\* of the wire without them does, and returns the same value.
C13_UndeclaredIgnored ==
    C13_Case =>
        \E r \in {decode(wire.v, MsgBytes(DeclaredOnly))} :
            /\ r.ok <=> pc = "done"
            /\ r.ok /\ pc = "done" => r.val = decoded.v

\* C13's case: a record of the undeclared number 2 ahead of the record of the
\* one declared field.
C13_Witness ==
    /\ C13_Case
    /\ pc = "done"
    /\ tokens = <<Tok("", "U")>>
    /\ msg = << [id |-> 2, wire_type |-> 0, data |-> PyInt(1)],
                [id |-> 1, wire_type |-> 2, data |-> PyBytes(<<3>>)] >>
    /\ decoded.v = PyTuple(<<PyStr(<<3>>)>>)

-----------------------------------------------------------------------------
(* C14 *)

\* A value n of [-2^(W-1), 2^(W-1)) is handed to encode under the schema 't'
\* of the width W.
C14_Case ==
    /\ C1_Case
    /\ wire.v.fmt[1].field_type = "t"
    /\ wire.v.fmt[1].field_id = 1

\* C14: two's complement round trip at the width W.  For the schema 't' with
\* vint_2sc_max_bits W and every n of [-2^(W-1), 2^(W-1)), encode writes the
\* header of field 1 and the varint of n masked to its W low bits, and decode
\* of those bytes with the same schema returns n.
C14_TwosComplementRoundTrip ==
    C14_Case =>
        /\ pc \notin {"encode_raised", "decode_raised"}
        /\ Encoded =>
              encoded.v = <<8>> \o _encode_vint(Supplied(1).i
                                                  % (2 ^ wire.v.max_bits))
        /\ pc = "done" => DecodedAt(1) = Supplied(1)

\* C14's case: -1 at the width 30 is written as 08 FF FF FF FF 03 and read
\* back.
C14_Witness ==
    /\ C14_Case
    /\ pc = "done"
    /\ wire.v.max_bits = 30
    /\ Supplied(1) = PyInt(-1)
    /\ encoded.v = <<8, 255, 255, 255, 255, 3>>
    /\ DecodedAt(1) = PyInt(-1)

-----------------------------------------------------------------------------
(* The primitive codec applied to sampled numbers *)

MaxVint == 300
MaxZigZag == 130
MaxHeaderNumber == 20

\* Numbers handed to _encode_vint: every one up to MaxVint, and both sides of
\* the steps to three, four and five bytes.
VintSamples ==
    (0..MaxVint) \cup {16383, 16384, 2097151, 2097152, 268435455, 268435456,
                       2147483647}

\* Numbers handed to _vint_zigzagify.
ZigZagSamples ==
    ((0 - MaxZigZag)..MaxZigZag) \cup {0 - 1073741823, 1073741823}

\* Field numbers and wire types handed to _encode_header.
HeaderNumbers ==
    (1..MaxHeaderNumber) \cup {2047, 2048, 262143, 262144, 268435455}
HeaderWireTypes ==
    {_WIRE_TYPE_VARINT, _WIRE_TYPE_I64, _WIRE_TYPE_LEN, _WIRE_TYPE_I32}

\* A number for the varint codec or the zig-zag mapping, or a wire type and a
\* field number for the header codec.
PrimitiveInit ==
    /\ \/ /\ pc = "vint"
          /\ stuff \in { PyInt(n) : n \in VintSamples }
          /\ wire_type = Nothing /\ field_number = Nothing
       \/ /\ pc = "zigzag"
          /\ stuff \in { PyInt(n) : n \in ZigZagSamples }
          /\ wire_type = Nothing /\ field_number = Nothing
       \/ /\ pc = "header"
          /\ stuff = PyNone
          /\ wire_type \in { Some(t) : t \in HeaderWireTypes }
          /\ field_number \in { Some(n) : n \in HeaderNumbers }
    /\ data = <<>> /\ buf = <<>> /\ fields = <<>> /\ msg = <<>>
    /\ wire = Nothing /\ encoded = Nothing /\ decoded = Nothing
    /\ exc = Nothing
    /\ IdleParse

\* _encode_vint(number) returns the bytes.
EncodeVint ==
    /\ pc = "vint"
    /\ data' = _encode_vint(stuff.i)
    /\ buf' = data'
    /\ pc' = "vint_encoded"
    /\ UNCHANGED <<wire_type, field_number, fields, msg, codecVars, exc,
                   parseVars>>

\* _decode_vint(buf) over a buffer of those bytes returns the number; buf is
\* what is left to read.
DecodeVint ==
    /\ pc = "vint_encoded"
    /\ \E r \in {_decode_vint(buf)} :
          /\ r.ok
          /\ decoded' = Some(PyInt(r.val))
          /\ buf' = r.rest
    /\ pc' = "vint_decoded"
    /\ UNCHANGED <<data, wire_type, field_number, fields, msg, wire, stuff,
                   encoded, exc, parseVars>>

\* _vint_zigzagify(number)
ZigZagify ==
    /\ pc = "zigzag"
    /\ encoded' = Some(PyInt(_vint_zigzagify(stuff.i)))
    /\ pc' = "zigzagged"
    /\ UNCHANGED <<rawVars, wire, stuff, decoded, exc, parseVars>>

\* _vint_dezigzagify(number), which asserts number >= 0.
DeZigZagify ==
    /\ pc = "zigzagged"
    /\ encoded.v.i >= 0
    /\ decoded' = Some(PyInt(_vint_dezigzagify(encoded.v.i)))
    /\ pc' = "dezigzagged"
    /\ UNCHANGED <<rawVars, wire, stuff, encoded, exc, parseVars>>

\* _encode_header(f_type, f_id) returns the bytes.
EncodeHeader ==
    /\ pc = "header"
    /\ data' = _encode_header(wire_type.v, field_number.v)
    /\ buf' = data'
    /\ pc' = "header_encoded"
    /\ UNCHANGED <<wire_type, field_number, fields, msg, codecVars, exc,
                   parseVars>>

\* _decode_header(buf) over a buffer of those bytes returns (f_type, f_id).
DecodeHeader ==
    /\ pc = "header_encoded"
    /\ \E h \in {_decode_header(buf)} :
          /\ h.ok
          /\ decoded' = Some(PyTuple(<<PyInt(h.f_type), PyInt(h.f_id)>>))
          /\ buf' = h.rest
    /\ pc' = "header_decoded"
    /\ UNCHANGED <<data, wire_type, field_number, fields, msg, wire, stuff,
                   encoded, exc, parseVars>>

PrimitiveNext ==
    \/ EncodeVint \/ DecodeVint
    \/ ZigZagify \/ DeZigZagify
    \/ EncodeHeader \/ DecodeHeader

SpecPrimitive == PrimitiveInit /\ [][PrimitiveNext]_vars

-----------------------------------------------------------------------------
(* C15 *)

\* The number the bytes b spell in base 128, least significant group first.
RECURSIVE Base128(_)
Base128(b) ==
    IF b = <<>> THEN 0 ELSE (Head(b) % 128) + (128 * Base128(Tail(b)))

\* C15: varint round trip and layout.  _encode_vint(n) is the minimal
\* little-endian base-128 encoding of n: seven bits of n in each byte, the
\* continuation bit set on every byte except the last, and the last byte
\* non-zero unless n = 0; _decode_vint over exactly those bytes returns n and
\* leaves nothing to read.
C15_VarintRoundTrip ==
    /\ pc \in {"vint_encoded", "vint_decoded"} =>
          /\ Len(data) >= 1
          /\ \A j \in 1..(Len(data) - 1) : data[j] \in 128..255
          /\ data[Len(data)] \in 0..127
          /\ data[Len(data)] = 0 => stuff.i = 0 /\ Len(data) = 1
          /\ Base128(data) = stuff.i
    /\ pc = "vint_encoded" => _decode_vint(buf).ok
    /\ pc = "vint_decoded" => decoded = Some(stuff) /\ buf = <<>>

\* C15's case: 300 is written as AC 02 and read back with nothing left.
C15_Witness ==
    /\ pc = "vint_decoded"
    /\ stuff = PyInt(300)
    /\ data = <<172, 2>>
    /\ decoded = Some(PyInt(300))
    /\ buf = <<>>

-----------------------------------------------------------------------------
(* C16 *)

\* C16: zig-zag.  _vint_zigzagify(n) is a non-negative integer, 2n for
\* n >= 0 and -2n - 1 for n < 0, and _vint_dezigzagify of it is n.
C16_ZigZagInvolution ==
    /\ pc \in {"zigzagged", "dezigzagged"} =>
          /\ encoded.v.i >= 0
          /\ stuff.i >= 0 => encoded.v.i = 2 * stuff.i
          /\ stuff.i < 0 => encoded.v.i = ((0 - 2) * stuff.i) - 1
    /\ pc = "dezigzagged" => decoded = Some(stuff)

\* C16's case: -65 is mapped to 129 and back.
C16_Witness ==
    /\ pc = "dezigzagged"
    /\ stuff = PyInt(-65)
    /\ encoded = Some(PyInt(129))
    /\ decoded = Some(PyInt(-65))

-----------------------------------------------------------------------------
(* C17 *)

\* C17: header round trip.  For a field number n of [1, 2^29) and a wire type
\* t of {0, 1, 2, 5} the header is the varint of (n << 3) | t, which takes
\* more than one byte exactly from n = 16 on, and _decode_header of it
\* returns the wire type t and the field number n.
C17_HeaderRoundTrip ==
    /\ pc \in {"header_encoded", "header_decoded"} =>
          /\ data = _encode_vint((field_number.v * 8) + wire_type.v)
          /\ Base128(data) = (field_number.v * 8) + wire_type.v
          /\ Len(data) > 1 <=> field_number.v >= 16
    /\ pc = "header_encoded" => _decode_header(buf).ok
    /\ pc = "header_decoded" =>
          /\ decoded = Some(PyTuple(<<PyInt(wire_type.v),
                                      PyInt(field_number.v)>>))
          /\ buf = <<>>

\* C17's case: the header of field 16 with wire type 5 is 85 01 and is read
\* back.
C17_Witness ==
    /\ pc = "header_decoded"
    /\ field_number = Some(16)
    /\ wire_type = Some(_WIRE_TYPE_I32)
    /\ data = <<133, 1>>
    /\ decoded = Some(PyTuple(<<PyInt(5), PyInt(16)>>))

-----------------------------------------------------------------------------
(* C18 *)

\* The bounds of field numbers (MAX_FIELD_NUMBER is 2**29 - 1) and of the
\* band reserved by Protocol Buffers.
MIN_FIELD_NUMBER == 1
MAX_FIELD_NUMBER == 536870911
MIN_RESERVED_BY_PROTOBUF_FIELD_NUMBER == 19000
MAX_RESERVED_BY_PROTOBUF_FIELD_NUMBER == 19999

\* A number a user may give for a field: in the range of field numbers and
\* outside of the reserved band (the assertions of Field.__init__).
Admissible(n) ==
    /\ MIN_FIELD_NUMBER <= n /\ n <= MAX_FIELD_NUMBER
    /\ ~(MIN_RESERVED_BY_PROTOBUF_FIELD_NUMBER <= n
          /\ n <= MAX_RESERVED_BY_PROTOBUF_FIELD_NUMBER)

\* C18: field-number range.  Every field descriptor of a compiled schema has
\* a field number of 1..2^29 - 1, and a schema with a seek '@N' to 0, to a
\* number above 2^29 - 1 or to a number of the reserved band 19000..19999 is
\* rejected: it does not compile.
C18_FieldNumberRange ==
    pc = "done" =>
        /\ \A j \in 1..Len(FieldNumbers(parsed_list)) :
              /\ MIN_FIELD_NUMBER <= FieldNumbers(parsed_list)[j]
              /\ FieldNumbers(parsed_list)[j] <= MAX_FIELD_NUMBER
        /\ \A j \in 1..Len(tokens) :
              tokens[j].seek.some => Admissible(tokens[j].seek.v)

-----------------------------------------------------------------------------
(* C19 *)

\* The records of m at the positions keep, in order.
RECURSIVE Pick(_, _)
Pick(m, keep) ==
    IF m = <<>> THEN <<>>
    ELSE (IF 1 \in keep THEN <<Head(m)>> ELSE <<>>)
         \o Pick(Tail(m), { j - 1 : j \in keep \ {1} })

\* The wire handed to decode without the records of the field fid that have
\* another record of the field after them.
LastOnly(fid) ==
    Pick(msg, { j \in 1..Len(msg) :
                   \/ msg[j].id # fid
                   \/ \A l \in (j + 1)..Len(msg) : msg[l].id # fid })

\* A wire was handed to decode, and it holds more than one record of the
\* field of the pass p, which is singular and has no subschema.
C19_Case(p) ==
    /\ ~EncodePath
    /\ pc \in {"done", "decode_raised"}
    /\ ~IsSkip(p)
    /\ Passes[p].fmt.prefix \in {"", PREFIX_REQUIRED}
    /\ ~Passes[p].fmt.subcontent.some
    /\ Passes[p].fid \in DOMAIN Index
    /\ Len(Index[Passes[p].fid]) > 1

\* C19: last one wins.  When the wire holds more than one record of a
\* singular field without a subschema, decode returns for the field the value
\* of the last of them in wire order and ignores the earlier ones: it does
\* what it does on the wire without them, and on success the value of the
\* field is the last record decoded alone.
C19_LastOneWins ==
    \A p \in 1..Len(Passes) :
        C19_Case(p) =>
            /\ \E r \in {decode(wire.v, MsgBytes(LastOnly(Passes[p].fid)))} :
                  /\ r.ok <=> pc = "done"
                  /\ r.ok /\ pc = "done" => r.val = decoded.v
                  /\ ~r.ok /\ pc = "decode_raised" =>
                        r.exc = exc.exc /\ r.what = exc.what
            /\ pc = "done" =>
                  \E d \in {_decode_field(wire.v, Passes[p].fmt.field_type,
                                          Index[Passes[p].fid]
                                               [Len(Index[Passes[p].fid])],
                                          Nothing)} :
                      d.ok /\ DecodedFor(p) = d.val

\* C19's case: two records of the one field of 'a'; the value is the payload
\* of the second.
C19_Witness ==
    /\ C19_Case(1)
    /\ pc = "done"
    /\ tokens = <<Tok("", "a")>>
    /\ msg = << [id |-> 1, wire_type |-> 2, data |-> PyBytes(<<3>>)],
                [id |-> 1, wire_type |-> 2, data |-> PyBytes(<<142, 2, 1>>)] >>
    /\ decoded.v = PyTuple(<<PyBytes(<<142, 2, 1>>)>>)

-----------------------------------------------------------------------------
(* C20 *)

\* The wire handed to decode with the records of the field fid, which are all
\* length-delimited, replaced by one record of their payloads in wire order,
\* at the place of the first.
Merged(fid) ==
    LET at == { j \in 1..Len(msg) : msg[j].id = fid }
        first == CHOOSE j \in at : \A l \in at : j <= l
        payload == Concat([j \in 1..Len(Index[fid]) |-> Index[fid][j].data.y])
    IN  Pick([msg EXCEPT ![first].data = PyBytes(payload)],
             { j \in 1..Len(msg) : msg[j].id # fid \/ j = first })

\* A wire was handed to decode, and it holds more than one length-delimited
\* record, and no other, of the field of the pass p, which is a singular
\* nested message.
C20_Case(p) ==
    /\ ~EncodePath
    /\ pc \in {"done", "decode_raised"}
    /\ ~IsSkip(p)
    /\ Passes[p].fmt.prefix \in {"", PREFIX_REQUIRED}
    /\ Passes[p].fmt.subcontent.some
    /\ Passes[p].fid \in DOMAIN Index
    /\ Len(Index[Passes[p].fid]) > 1
    /\ \A j \in 1..Len(Index[Passes[p].fid]) :
          Index[Passes[p].fid][j].wire_type = _WIRE_TYPE_LEN

\* C20: nested merge.  When the wire holds more than one record of a singular
\* nested message field, decode returns what decoding the subschema once over
\* the payloads of the records, concatenated in wire order, returns: decode
\* does what it does on the wire with the one record of the concatenation in
\* their place, and on success the value of the field is the subschema
\* decoded over the concatenation.
C20_NestedMerge ==
    \A p \in 1..Len(Passes) :
        C20_Case(p) =>
            /\ \E r \in {decode(wire.v, MsgBytes(Merged(Passes[p].fid)))} :
                  /\ r.ok <=> pc = "done"
                  /\ r.ok /\ pc = "done" => r.val = decoded.v
                  /\ ~r.ok /\ pc = "decode_raised" =>
                        r.exc = exc.exc /\ r.what = exc.what
            /\ pc = "done" =>
                  \E d \in {_decode_wire(wire.v,
                        Concat([j \in 1..Len(Index[Passes[p].fid]) |->
                                   Index[Passes[p].fid][j].data.y]),
                        Passes[p].fmt.subcontent)} :
                      /\ d.ok
                      /\ DecodedFor(p) = (IF wire.v.kv_fmt THEN DictOf(d.val)
                                          ELSE TupleOf(d.val))

\* C20's case: the records ('t', 1) and (2) of the one field of '[U+T]' give
\* the string of the first and the varints of both.
C20_Witness ==
    /\ C20_Case(1)
    /\ pc = "done"
    /\ tokens = <<Grp("", <<Tok("", "U"), Tok("+", "T")>>)>>
    /\ ~wire.v.kv_fmt
    /\ msg = << [id |-> 1, wire_type |-> 2,
                 data |-> PyBytes(<<10, 1, 116, 16, 1>>)],
                [id |-> 1, wire_type |-> 2, data |-> PyBytes(<<16, 2>>)] >>
    /\ decoded.v = PyTuple(<<PyTuple(<<PyStr(<<116>>),
                                       PyTuple(<<PyInt(1), PyInt(2)>>)>>)>>)

-----------------------------------------------------------------------------
(* C21 *)

\* The records decode hands to _decode_field for the pass p, which is no skip
\* and not packed, in the order it hands them: every record of a repeated
\* field; of a singular field the one record, of several the last, or for a
\* nested message their concatenation when there is one.
Handed(p) ==
    LET fmt == Passes[p].fmt
        fid == Passes[p].fid
    IN  IF fid \notin DOMAIN Index THEN <<>>
        ELSE IF fmt.prefix = PREFIX_REPEATED THEN Index[fid]
        ELSE IF Len(Index[fid]) = 1 \/ ~fmt.subcontent.some
        THEN <<Index[fid][Len(Index[fid])]>>
        ELSE IF _concat_fields(Index[fid]).ok
        THEN <<_concat_fields(Index[fid]).val>>
        ELSE <<>>

\* The wire type of the type of the pass p.
Expected(p) == _TYPE_TO_WIRE_TYPE_MAP(Passes[p].fmt.field_type).v

\* The k-th record handed over for the pass p is the first of the decode
\* whose wire type is not the expected one, and decode gets to it: the
\* passes before p and the records before it decode.
FirstMismatch(p, k) ==
    /\ ~IsSkip(p)
    /\ Passes[p].fmt.prefix # PREFIX_REPEATED_PACKED
    /\ k \in 1..Len(Handed(p))
    /\ Handed(p)[k].wire_type # Expected(p)
    /\ \A q \in 1..(p - 1) :
          IsSkip(q) \/ DecodeSlot(wire.v, Index, Passes[q].fmt,
                                  Passes[q].fid).ok
    /\ \A l \in 1..(k - 1) :
          _decode_field(wire.v, Passes[p].fmt.field_type, Handed(p)[l],
                        Passes[p].fmt.subcontent).ok

-----------------------------------------------------------------------------
(* C22 *)

\* A wire was handed to decode, decode gets to the pass p, which is packed
\* repeated, and the wire holds for its field a record of another wire type
\* than the length-delimited one.
C22_Case(p) ==
    /\ ~EncodePath
    /\ pc \in {"done", "decode_raised"}
    /\ ~IsSkip(p)
    /\ Passes[p].fmt.prefix = PREFIX_REPEATED_PACKED
    /\ Passes[p].fid \in DOMAIN Index
    /\ \E j \in 1..Len(Index[Passes[p].fid]) :
          Index[Passes[p].fid][j].wire_type # _WIRE_TYPE_LEN
    /\ \A q \in 1..(p - 1) :
          IsSkip(q) \/ DecodeSlot(wire.v, Index, Passes[q].fmt,
                                  Passes[q].fid).ok

\* C22: for a packed repeated descriptor, when the record or the records of
\* its field on the wire do not have the length-delimited wire type, decode
\* fails with CodecError, with one record as with several.
C22_PackedWireType ==
    \A p \in 1..Len(Passes) :
        C22_Case(p) =>
            /\ pc = "decode_raised"
            /\ exc.exc = "CodecError"

-----------------------------------------------------------------------------
(* C23 *)

\* The records of the message whose wire type has a decoder.
Supported(m) == SelectSeq(m, LAMBDA r : HasWireDecoder(Some(r.wire_type)))

\* The payload of a record has the shape of its wire type.
WellShaped(r) ==
    CASE r.wire_type = _WIRE_TYPE_VARINT -> r.data.k = "int" /\ r.data.i >= 0
      [] r.wire_type = _WIRE_TYPE_I64 ->
            r.data.k = "bytes" /\ Len(r.data.y) = 8
      [] r.wire_type = _WIRE_TYPE_LEN -> r.data.k = "bytes"
      [] r.wire_type = _WIRE_TYPE_I32 ->
            r.data.k = "bytes" /\ Len(r.data.y) = 4
      [] OTHER -> FALSE

\* C23: raw breakdown yields supported records only.  A header of wire type
\* 3 or 4 is skipped: no record is yielded for it and decoding goes on with
\* the next header.  Every record yielded has a wire type of {0, 1, 2, 5}
\* and a payload of its shape: the records yielded are, in order, the
\* records of those wire types that were written to the stream, with the
\* payloads they were written with, and all of them when the stream is
\* whole.
C23_SupportedRecordsOnly ==
    pc \in {"loop", "done", "raised"} =>
        /\ \A j \in 1..Len(fields) : WellShaped(fields[j])
        /\ Len(fields) <= Len(Supported(msg))
        /\ fields = SubSeq(Supported(msg), 1, Len(fields))
        /\ (pc = "done" /\ data = MsgBytes(msg)) => fields = Supported(msg)

\* C23's case: a header of wire type 4 was skipped and the record after it
\* was yielded.
C23_Witness ==
    /\ pc = "done"
    /\ Len(msg) = 2
    /\ msg[1] = [id |-> 4, wire_type |-> 4, data |-> PyNone]
    /\ msg[2] = [id |-> 2, wire_type |-> 2, data |-> PyBytes(<<116, 101>>)]
    /\ data = MsgBytes(msg)
    /\ fields = <<msg[2]>>

-----------------------------------------------------------------------------
(* Headerless breakdown of sampled payloads *)

\* The elements of packed payloads: for each wire type the payloads of one
\* field, with one and with several bytes where the wire type allows it.
ElementSamples(wt) ==
    { [id |-> 1, wire_type |-> wt, data |-> d] :
        d \in CASE wt = _WIRE_TYPE_VARINT -> {PyInt(1), PyInt(300)}
                [] wt = _WIRE_TYPE_I64 ->
                      {PyBytes(<<210, 2, 150, 73, 0, 0, 0, 0>>)}
                [] wt = _WIRE_TYPE_LEN ->
                      {PyBytes(<<>>), PyBytes(<<116, 101>>)}
                [] wt = _WIRE_TYPE_I32 ->
                      {PyBytes(<<1, 0, 0, 0>>), PyBytes(<<0, 0, 128, 63>>)} }

\* The bytes of the elements m without headers.
ElementBytes(m) ==
    Concat([i \in 1..Len(m) |-> WireEncode(m[i].wire_type, m[i].data).val])

\* The offsets of the element boundaries of the payload of m.
ElementBoundaries(m) ==
    { Len(ElementBytes(SubSeq(m, 1, i))) : i \in 0..Len(m) }

\* _yield_fields_from_wire is called with a wire type and a field number on
\* a buffer that holds elements of the wire type, whole or cut.
UnpackInit ==
    /\ wire_type \in { Some(wt) : wt \in HeaderWireTypes }
    /\ field_number = Some(1)
    /\ msg \in SeqsUpTo(ElementSamples(wire_type.v), MaxRecords)
    /\ \E cut \in 0..Len(ElementBytes(msg)) :
          data = Take(ElementBytes(msg), cut)
    /\ buf = data
    /\ fields = <<>>
    /\ pc = "unpack"
    /\ exc = Nothing
    /\ IdleParse /\ IdleCodec

UnpackIter == {YieldIter(buf, FALSE, wire_type, field_number)}

\* The loop yields one element.
UnpackYield ==
    /\ pc = "unpack"
    /\ \E it \in UnpackIter :
           /\ it.kind = "yield"
           /\ buf' = it.buf
           /\ fields' = Append(fields, it.field)
    /\ UNCHANGED <<pc, exc, data, wire_type, field_number, msg, parseVars,
                   codecVars>>

\* The loop is left at the end of the buffer.
UnpackReturn ==
    /\ pc = "unpack"
    /\ \E it \in UnpackIter : it.kind = "break"
    /\ pc' = "unpacked"
    /\ UNCHANGED <<exc, rawVars, parseVars, codecVars>>

\* CodecError propagates out of the generator.
UnpackRaise ==
    /\ pc = "unpack"
    /\ \E it \in UnpackIter :
           /\ it.kind = "raise"
           /\ exc' = Raise("CodecError", UnexpectedEOM, it.field_number.v)
    /\ pc' = "unpack_raised"
    /\ UNCHANGED <<rawVars, parseVars, codecVars>>

UnpackNext == UnpackYield \/ UnpackReturn \/ UnpackRaise

SpecUnpack == UnpackInit /\ [][UnpackNext]_vars

-----------------------------------------------------------------------------
(* C24 *)

\* C24: headerless breakdown with a wire type of {0, 1, 2, 5}.  It yields one
\* record for each element, in order, until the buffer is drained; it ends
\* without error when the buffer ends on an element boundary, having
\* yielded every element before it, and raises CodecError 'Unexpected end of
\* message' when the buffer ends inside an element.
C24_HeaderlessBreakdown ==
    pc \in {"unpack", "unpacked", "unpack_raised"} =>
        /\ Len(fields) <= Len(msg)
        /\ fields = SubSeq(msg, 1, Len(fields))
        /\ pc # "unpack" =>
              /\ Len(ElementBytes(fields)) <= Len(data)
              /\ \A i \in (Len(fields) + 1)..Len(msg) :
                    Len(ElementBytes(SubSeq(msg, 1, i))) > Len(data)
        /\ pc = "unpacked" => Len(data) \in ElementBoundaries(msg)
        /\ pc = "unpack_raised" =>
              /\ Len(data) \notin ElementBoundaries(msg)
              /\ exc.exc = "CodecError"
              /\ exc.what = UnexpectedEOM

\* C24's case: the second of two fixed 32-bit elements is cut after two
\* bytes: the first is yielded, then CodecError.
C24_Witness ==
    /\ pc = "unpack_raised"
    /\ wire_type = Some(_WIRE_TYPE_I32)
    /\ Len(msg) = 2
    /\ Len(data) = 6
    /\ fields = <<msg[1]>>
    /\ exc.exc = "CodecError"

-----------------------------------------------------------------------------
(* C25 *)

\* The token _parse_format_string has just laid out, when it is a nested
\* group.
LaidOutGroup ==
    /\ pc = "fmtstr"
    /\ Len(parsed_list') = Len(parsed_list) + 1
    /\ tokens[Len(parsed_list')].kind = "group"

\* C25, as stated: in a format string a seek '@N' after the closing bracket
\* of a nested group applies to the field after the nested field: the nested
\* field is laid out at the running counter, and the next field starts at N.
C25_SeekAfterNested ==
    [][LaidOutGroup =>
          LET t == tokens[Len(parsed_list')]
              f == parsed_list'[Len(parsed_list')]
          IN  /\ f.field_id = field_id
              /\ field_id' = (IF t.seek.some THEN t.seek.v
                              ELSE field_id + 1)]_vars

\* C25, amended: in a format string a seek '@N' after the closing bracket of
\* a nested group applies to the nested field itself: the nested field is
\* laid out at N (at the running counter without a seek), and the next field
\* starts at the number after it.
C25_SeekAtNested ==
    [][LaidOutGroup =>
          LET t == tokens[Len(parsed_list')]
              f == parsed_list'[Len(parsed_list')]
          IN  /\ f.field_id = (IF t.seek.some THEN t.seek.v ELSE field_id)
              /\ field_id' = f.field_id + 1]_vars

\* C25's case: 'V[U]@3V' has compiled: the nested field is at 3 and the
\* field after it at 4.
C25_Witness ==
    /\ pc = "done"
    /\ tokens = <<Scalar("", "V", Nothing, Nothing),
                  Group("", <<Scalar("", "U", Nothing, Nothing)>>, Some(3)),
                  Scalar("", "V", Nothing, Nothing)>>
    /\ fmtstr = WriteFmtStr(tokens)
    /\ FieldNumbers(parsed_list) = <<1, 3, 4>>

-----------------------------------------------------------------------------
(* One overlap checker taking descriptors in any order *)

MaxCalls == 3
MaxStart == 5
MaxRepeat == 2

\* The descriptors handed to add_field.
CheckerFields ==
    { Parsed("", "T", start, Some(repeat), Nothing) :
        start \in 1..MaxStart, repeat \in 1..MaxRepeat }

\* _OverlapCheck.__init__ and an empty parsed_list; tokens holds the
\* descriptors add_field was called with.
CheckerInit ==
    /\ pc = "checker"
    /\ parser_used_fields = Nothing
    /\ parsed_list = <<>>
    /\ tokens = <<>>
    /\ fmtstr = <<>> /\ ptr = 0 /\ field_id = 0
    /\ exc = Nothing
    /\ IdleRaw /\ IdleCodec

\* add_field appends the descriptor.
AddFieldAccepted ==
    /\ pc = "checker" /\ Len(tokens) < MaxCalls
    /\ \E f \in CheckerFields :
       \E a \in {add_field(parser_used_fields, parsed_list, f)} :
           /\ a.ok
           /\ parser_used_fields' = a.used
           /\ parsed_list' = a.parsed_list
           /\ tokens' = Append(tokens, f)
    /\ UNCHANGED <<pc, exc, fmtstr, ptr, field_id, rawVars, codecVars>>

\* add_field raises BadFormatString: _check_overlap has returned False, with
\* the boundary list as it then is, and nothing is appended.
AddFieldRejected ==
    /\ pc = "checker" /\ Len(tokens) < MaxCalls
    /\ \E f \in CheckerFields :
       \E a \in {add_field(parser_used_fields, parsed_list, f)} :
       \E c \in {_check_overlap(parser_used_fields, f.field_id, Repeat(f))} :
           /\ ~a.ok
           /\ exc' = a
           /\ parser_used_fields' = c.used
           /\ tokens' = Append(tokens, f)
    /\ UNCHANGED <<pc, parsed_list, fmtstr, ptr, field_id, rawVars,
                   codecVars>>

CheckerNext == AddFieldAccepted \/ AddFieldRejected

SpecChecker == CheckerInit /\ [][CheckerNext]_vars

-----------------------------------------------------------------------------
(* C26 *)

\* The field numbers of the half-open intervals of a boundary list.
Covered(a) ==
    UNION { a[(2 * i) - 1]..(a[2 * i] - 1) : i \in 1..(Len(a) \div 2) }

\* The field numbers of the descriptors of a list.
Occupied(plist) == UNION { Range(plist[i]) : i \in 1..Len(plist) }

\* C26: the state of the overlap checker.  After any sequence of add_field
\* calls on one checker, accepted or rejected and in any order, the boundary
\* list has even length and is strictly increasing (its intervals are sorted,
\* disjoint and coalesced), and the union of its intervals is the union of
\* the ranges of the accepted descriptors; a rejected call leaves the
\* boundary list and the parsed list as they were.
C26_CheckerState ==
    /\ [](pc = "checker" =>
            IF ~parser_used_fields.some THEN parsed_list = <<>>
            ELSE /\ Len(parser_used_fields.v) % 2 = 0
                 /\ \A i \in 1..(Len(parser_used_fields.v) - 1) :
                       parser_used_fields.v[i] < parser_used_fields.v[i + 1]
                 /\ Covered(parser_used_fields.v) = Occupied(parsed_list))
    /\ [][(pc = "checker" /\ Len(tokens') = Len(tokens) + 1) =>
            IF Range(tokens'[Len(tokens')]) \cap Occupied(parsed_list) # {}
            THEN /\ parser_used_fields' = parser_used_fields
                 /\ parsed_list' = parsed_list
            ELSE parsed_list' = Append(parsed_list, tokens'[Len(tokens')])
         ]_vars

\* C26's case: field 3 is taken, a second descriptor at 3 is rejected, and
\* field 1 is then put before it.
C26_Witness ==
    /\ pc = "checker"
    /\ Len(tokens) = 3
    /\ tokens[1] = tokens[2]
    /\ FieldNumbers(parsed_list) = <<3, 1>>
    /\ parser_used_fields = Some(<<1, 2, 3, 4>>)
    /\ exc # Nothing

-----------------------------------------------------------------------------
(* C27 *)

\* An integer, inside or outside [-2^(W-1), 2^(W-1)), is handed to encode
\* under the schema 't' of the width W.
C27_Case ==
    /\ EncodePath
    /\ Len(wire.v.fmt) = 1
    /\ Len(Slots) = 1
    /\ wire.v.fmt[1].prefix = ""
    /\ wire.v.fmt[1].field_type = "t"
    /\ wire.v.fmt[1].field_id = 1
    /\ IsSupplied(1)
    /\ Supplied(1) \in ScalarSamples("t", wire.v.max_bits)

\* Whether n is of [-2^(W-1), 2^(W-1)).
InWidth(n, W) == n >= 0 - (2 ^ (W - 1)) /\ n < 2 ^ (W - 1)

\* What encode owes a value outside the range: no error, and the varint of
\* its W low bits.
C27_Truncated ==
    /\ pc # "encode_raised"
    /\ (Encoded /\ ~InWidth(Supplied(1).i, wire.v.max_bits)) =>
          /\ Head(encoded.v) = 8
          /\ Base128(Tail(encoded.v))
                = Supplied(1).i % (2 ^ wire.v.max_bits)

\* C27, as stated: for a 't' field at the width W, encoding any negative
\* value gives a varint payload of exactly ceil(W/7) bytes, and a value
\* outside [-2^(W-1), 2^(W-1)) is truncated to its W low bits without an
\* error.
C27_NegativeLength ==
    C27_Case =>
        /\ C27_Truncated
        /\ (Encoded /\ Supplied(1).i < 0) =>
              Len(encoded.v) = 1 + ((wire.v.max_bits + 6) \div 7)

\* C27, amended: for a 't' field at the width W, encoding any negative value
\* of [-2^(W-1), 0) gives a varint payload of exactly ceil(W/7) bytes, and a
\* value outside [-2^(W-1), 2^(W-1)) is truncated to its W low bits without
\* an error.
C27_InRangeNegativeLength ==
    C27_Case =>
        /\ C27_Truncated
        /\ (Encoded /\ Supplied(1).i < 0
                    /\ InWidth(Supplied(1).i, wire.v.max_bits)) =>
              Len(encoded.v) = 1 + ((wire.v.max_bits + 6) \div 7)

\* C27's case: at the width 8, -128 has been written in two bytes.
C27_Witness ==
    /\ C27_Case
    /\ Encoded
    /\ wire.v.max_bits = 8
    /\ Supplied(1) = PyInt(-128)
    /\ encoded.v = <<8, 128, 1>>

-----------------------------------------------------------------------------
(* C28 *)

\* Whether two record lists give the same records, in the same order, for
\* every field number.
SameGroups(m1, m2) ==
    /\ Len(m1) = Len(m2)
    /\ \A n \in { m1[j].id : j \in 1..Len(m1) }
              \cup { m2[j].id : j \in 1..Len(m2) } :
          SelectSeq(m1, LAMBDA r : r.id = n)
              = SelectSeq(m2, LAMBDA r : r.id = n)

\* The record lists with the records of m in another order and the same
\* groups.
Interleavings(m) ==
    { m2 \in { [i \in 1..Len(m) |-> m[p[i]]] :
                  p \in { q \in [1..Len(m) -> 1..Len(m)] :
                            \A i, j \in 1..Len(m) : q[i] = q[j] => i = j } } :
        SameGroups(m, m2) }

\* A wire was handed to decode and decode is over.
C28_Case ==
    /\ ~EncodePath
    /\ pc \in {"done", "decode_raised"}

\* C28: decode does not see how the records of different fields are
\* interleaved.  Two wires whose records, grouped by field number, give the
\* same sequence of records for every field number decode to the same value,
\* or fail with the same error; and the output follows the schema: it has
\* one value for each value slot, in the order of the descriptors, and the
\* value of a slot is null exactly when the wire has no record of the number
\* of the slot.
C28_InterleavingIgnored ==
    C28_Case =>
        /\ \A m2 \in Interleavings(msg) :
           \E r \in {decode(wire.v, MsgBytes(m2))} :
               IF pc = "done" THEN r.ok /\ r.val = decoded.v
               ELSE r = exc
        /\ pc = "done" =>
              /\ ~wire.v.kv_fmt => Len(decoded.v.t) = Len(Slots)
              /\ \A k \in 1..Len(Slots) :
                    (DecodedAt(k) = PyNone)
                        <=> (\A j \in 1..Len(msg) : msg[j].id # Slots[k].fid)

\* C28's case: under 'UT' the record of field 2 ahead of the record of field
\* 1 gives the string first and the number second.
C28_Witness ==
    /\ C28_Case
    /\ pc = "done"
    /\ tokens = <<Tok("", "U"), Tok("", "T")>>
    /\ ~wire.v.kv_fmt
    /\ msg = << [id |-> 2, wire_type |-> 0, data |-> PyInt(1)],
                [id |-> 1, wire_type |-> 2, data |-> PyBytes(<<3>>)] >>
    /\ Cardinality(Interleavings(msg)) = 2
    /\ decoded.v = PyTuple(<<PyStr(<<3>>), PyInt(1)>>)

-----------------------------------------------------------------------------
(* The raw breakdown in both modes, run to its end *)

BreakdownInit == RawInit \/ UnpackInit

BreakdownNext == RawNext \/ UnpackNext

\* The loop of _yield_fields_from_wire is one thread of control: while it has
\* a step to take, it takes it.
SpecBreakdown ==
    BreakdownInit /\ [][BreakdownNext]_vars /\ WF_vars(BreakdownNext)

-----------------------------------------------------------------------------
(* C29 *)

\* C29: the raw breakdown ends on every finite input.  In header mode, and
\* in headerless mode with a wire type of {0, 1, 2, 5}, every pass of the
\* loop of _yield_fields_from_wire takes at least one byte from the buffer
\* or leaves the loop, at the end of the buffer or with CodecError; so the
\* breakdown always comes to a result or an error, also on inputs with
\* headers of the unsupported wire types 3, 4, 6 and 7.
C29_BreakdownEnds ==
    /\ [][(pc \in {"loop", "unpack"}) =>
            (\/ Len(buf') < Len(buf)
             \/ pc' \in {"done", "raised", "unpacked", "unpack_raised"})
         ]_vars
    /\ <>(pc \in {"done", "raised", "unpacked", "unpack_raised"})

\* C29's case: a wire of two headers of unsupported wire types has been read
\* to its end, and nothing was yielded.
C29_Witness ==
    /\ pc = "done"
    /\ Len(msg) = 2
    /\ \A j \in 1..2 : ~HasWireDecoder(Some(msg[j].wire_type))
    /\ data = MsgBytes(msg)
    /\ buf = <<>>
    /\ fields = <<>>

-----------------------------------------------------------------------------
(* C30 *)

\* Encode was handed a sequence for the repeated ('+') field of the pass p
\* and has returned the bytes.
C30_Case(p) ==
    /\ EncodePath
    /\ Encoded
    /\ Passes[p].fmt.prefix = PREFIX_REPEATED /\ ~IsSkip(p)
    /\ Given(p).some
    /\ Given(p).v.k = "tuple"

\* C30: round trip of a repeated ('+') field.  For a non-empty sequence the
\* encoder writes one record, header and payload, for each element, in
\* order, and decode returns the elements in wire order: the sequence.  For
\* an empty sequence the encoder writes nothing for the field, and decode
\* returns null for it, not an empty sequence.
C30_RepeatedRoundTrip ==
    \A p \in 1..Len(Passes) : C30_Case(p) =>
        /\ decode_raw(data).ok
        /\ IF Given(p).v.t = <<>>
           THEN /\ Passes[p].fid \notin DOMAIN Index
                /\ pc = "done" => DecodedFor(p) = PyNone
           ELSE /\ Passes[p].fid \in DOMAIN Index
                /\ Len(RecordsFor(p)) = Len(Given(p).v.t)
                /\ \A j \in 1..Len(Given(p).v.t) :
                      /\ RecordsFor(p)[j].wire_type
                            = _TYPE_TO_WIRE_TYPE_MAP(
                                  Passes[p].fmt.field_type).v
                      /\ _encode_field(wire.v, Passes[p].fmt.field_type,
                                       Given(p).v.t[j],
                                       Passes[p].fmt.subcontent)
                            = WireEncode(RecordsFor(p)[j].wire_type,
                                         RecordsFor(p)[j].data)
                /\ pc = "done" => DecodedFor(p) = Given(p).v
        /\ Len(Passes) = 1 => pc # "decode_raised"

\* C30's case: under 'b+U' the strings 'te' and '' were written as two
\* records of field 2 and read back as the two strings.
C30_Witness ==
    /\ pc = "done"
    /\ tokens = <<Tok("", "b"), Tok("+", "U")>>
    /\ C30_Case(2)
    /\ Given(2).v = PyTuple(<<PyStr(<<116, 101>>), PyStr(<<>>)>>)
    /\ Len(RecordsFor(2)) = 2
    /\ DecodedFor(2) = Given(2).v

=============================================================================
